---- MODULE Spec2Model ----
(***************************************************************************)
(* ThreatGPT: the simulation engine (core/simulator.py) and the LLM        *)
(* manager (llm/manager.py) as state machines.                             *)
(*                                                                         *)
(* Python strings are TLA+ strings; Len, SubSeq and \o act on them as the  *)
(* Python operations len, slicing and + do.  The bullet character of the   *)
(* canned narratives is written "+" (the module is ASCII).                 *)
(***************************************************************************)
EXTENDS Integers, Sequences, FiniteSets, TLC

(***************************************************************************)
(* Bounds of the model.                                                    *)
(***************************************************************************)
\* number of execute_simulation calls that may overlap on one simulator
MaxRuns == 2
\* largest value the wall clock reaches
MaxClock == 1
\* largest max_stages of a simulator on which calls overlap
MaxConcStages == 2

\* campaigns one deployment engine runs
MaxCampaigns == 2

\* targets of one platform deployment
MaxTargets == 2

\* calls of the template fixers in one behaviour
MaxFixCalls == 2

\* largest reading of the fixers' clock
MaxEpoch == 1

\* the runs of fix_all_templates of a behaviour
MaxFixRuns == 2

(***************************************************************************)
(* str helpers                                                             *)
(***************************************************************************)
UpperAlphabet == "ABCDEFGHIJKLMNOPQRSTUVWXYZ"

LowerAlphabet == "abcdefghijklmnopqrstuvwxyz"

CharAt(s, k) == SubSeq(s, k, k)

\* str.lower() on one character
LowerChar(c) ==
    IF \E k \in 1..26 : CharAt(UpperAlphabet, k) = c
    THEN CharAt(LowerAlphabet, CHOOSE k \in 1..26 : CharAt(UpperAlphabet, k) = c)
    ELSE c

\* str.upper() on one character
UpperChar(c) ==
    IF \E k \in 1..26 : CharAt(LowerAlphabet, k) = c
    THEN CharAt(UpperAlphabet, CHOOSE k \in 1..26 : CharAt(LowerAlphabet, k) = c)
    ELSE c

RECURSIVE ToLower(_)
\* str.lower()
ToLower(s) ==
    IF Len(s) = 0 THEN ""
    ELSE IF Len(s) = 1 THEN LowerChar(s)
    ELSE LET half == Len(s) \div 2
         IN  ToLower(SubSeq(s, 1, half)) \o ToLower(SubSeq(s, half + 1, Len(s)))

RECURSIVE ToUpper(_)
\* str.upper()
ToUpper(s) ==
    IF Len(s) = 0 THEN ""
    ELSE UpperChar(CharAt(s, 1)) \o ToUpper(SubSeq(s, 2, Len(s)))

\* sub in s
Contains(s, sub) ==
    \E k \in 1..(Len(s) - Len(sub) + 1) : SubSeq(s, k, k + Len(sub) - 1) = sub

\* s.startswith(p)
StartsWith(s, p) == Len(s) >= Len(p) /\ SubSeq(s, 1, Len(p)) = p

IsSpace(c) == c \in {" ", "\n", "\t", "\r", "\f"}

RECURSIVE LStrip(_)
LStrip(s) ==
    IF Len(s) > 0 /\ IsSpace(CharAt(s, 1)) THEN LStrip(SubSeq(s, 2, Len(s))) ELSE s

RECURSIVE RStrip(_)
RStrip(s) ==
    IF Len(s) > 0 /\ IsSpace(CharAt(s, Len(s))) THEN RStrip(SubSeq(s, 1, Len(s) - 1)) ELSE s

\* str.strip()
Strip(s) == RStrip(LStrip(s))

\* Slice with the bound one too small: seq[:n-1]
SliceOffByOne(seq, n) ==
    IF n - 1 >= 0
    THEN SubSeq(seq, 1, IF n - 1 < Len(seq) THEN n - 1 ELSE Len(seq))
    ELSE SubSeq(seq, 1, IF Len(seq) + n - 1 > 0 THEN Len(seq) + n - 1 ELSE 0)

\* seq[:n] of Python, n any integer
Slice(seq, n) ==
    IF n >= 0
    THEN SubSeq(seq, 1, IF n < Len(seq) THEN n ELSE Len(seq))
    ELSE SubSeq(seq, 1, IF Len(seq) + n > 0 THEN Len(seq) + n ELSE 0)

(***************************************************************************)
(* llm/manager.py                                                          *)
(***************************************************************************)
\* the value None where a provider name is expected
NoProvider == "None"

\* _get_provider with the default provider consulted before the name
GetProviderDefaultFirst(mgr, provider_name) ==
    IF mgr.provider # NoProvider
    THEN mgr.provider
    ELSE IF provider_name # NoProvider /\ \E k \in 1..Len(mgr.providers) : mgr.providers[k] = provider_name
    THEN provider_name
    ELSE IF Len(mgr.providers) > 0
    THEN mgr.providers[1]
    ELSE NoProvider

\* LLMManager._get_provider; mgr.provider is the default provider,
\* mgr.providers the registered names in registration order
GetProvider(mgr, provider_name) ==
    IF provider_name # NoProvider /\ \E k \in 1..Len(mgr.providers) : mgr.providers[k] = provider_name
    THEN provider_name
    ELSE IF mgr.provider # NoProvider
    THEN mgr.provider
    ELSE IF Len(mgr.providers) > 0
    THEN mgr.providers[1]
    ELSE NoProvider

\* LLMManager.is_available
ManagerIsAvailable(mgr) == mgr.provider # NoProvider \/ Len(mgr.providers) > 0

InsufficientContent(scenario_type) ==
    "[Insufficient content generated for " \o scenario_type \o " scenario]"

\* LLMManager._validate_response.  An LLMResponse without the attribute
\* is_real_ai is written is_real_ai = FALSE: every read of it is
\* getattr(response, 'is_real_ai', False).
ValidateResponse(response, scenario_type) ==
    LET r1 == IF response.content = "" \/ Len(Strip(response.content)) < 10
              THEN [response EXCEPT !.content = InsufficientContent(scenario_type),
                                    !.is_real_ai = FALSE]
              ELSE response
        is_fallback == StartsWith(r1.content, "[FALLBACK")
                       \/ StartsWith(r1.content, "[Content generation unavailable")
        r2 == IF is_fallback THEN [r1 EXCEPT !.is_real_ai = FALSE] ELSE r1
    IN  [r2 EXCEPT !.scenario_type = scenario_type]

\* FallbackResponse that forgets to flag the response as not real
FallbackResponseUnflagged(scenario_type, e) ==
    [content |-> "[FALLBACK CONTENT] Unable to generate real AI content for "
                 \o scenario_type \o " scenario. Error: " \o e,
     provider |-> "fallback",
     model |-> "none",
     error |-> e,
     scenario_type |-> scenario_type,
     is_real_ai |-> TRUE,
     finish_reason |-> "None"]

\* the response built in the except branch of LLMManager.generate_content
FallbackResponse(scenario_type, e) ==
    [content |-> "[FALLBACK CONTENT] Unable to generate real AI content for "
                 \o scenario_type \o " scenario. Error: " \o e,
     provider |-> "fallback",
     model |-> "none",
     error |-> e,
     scenario_type |-> scenario_type,
     is_real_ai |-> FALSE,
     finish_reason |-> "None"]

\* the body of LLMManager.generate_content after the provider call has
\* finished with outcome `out`:
\*   [kind |-> "raise", msg |-> m]    the provider raised
\*   [kind |-> "none"]                the provider returned None
\*   [kind |-> "resp", resp |-> r]    the provider returned the LLMResponse r
\* (r.provider = "<unset>" is a response without the attribute provider)
AfterProviderCall(out, scenario_type) ==
    IF out.kind = "raise"
    THEN FallbackResponse(scenario_type, out.msg)
    ELSE IF out.kind = "none"
    THEN FallbackResponse(scenario_type, "Provider returned None response")
    ELSE IF out.resp.provider # "<unset>" /\ out.resp.provider # "fallback"
    THEN [ValidateResponse(out.resp, scenario_type) EXCEPT !.is_real_ai = TRUE]
    ELSE [out.resp EXCEPT !.is_real_ai = FALSE]

\* LLMManager.generate_content as a function of the provider's outcome:
\* [kind |-> "raise", msg] or [kind |-> "resp", resp]
GenerateContent(mgr, provider_name, scenario_type, out) ==
    IF GetProvider(mgr, provider_name) = NoProvider
    THEN [kind |-> "raise", msg |-> "No LLM provider available"]
    ELSE [kind |-> "resp", resp |-> AfterProviderCall(out, scenario_type)]

(***************************************************************************)
(* core/simulator.py: pure parts                                           *)
(***************************************************************************)
\* stages_config of ThreatSimulator._execute_stages
stages_config ==
    << [type |-> "reconnaissance", description |-> "Initial target reconnaissance"],
       [type |-> "attack_planning", description |-> "Plan attack methodology"],
       [type |-> "execution", description |-> "Execute the threat scenario"],
       [type |-> "persistence", description |-> "Establish persistence mechanisms"],
       [type |-> "data_collection", description |-> "Collect target information"],
       [type |-> "exfiltration", description |-> "Data exfiltration simulation"],
       [type |-> "cleanup", description |-> "Clean up simulation artifacts"] >>

\* the canned narratives of ThreatSimulator._generate_fallback_content
FallbackTemplate(scenario, stage_type, description) ==
    IF stage_type = "reconnaissance" THEN
        "\n[RECONNAISSANCE STAGE]\nScenario: "
        \o scenario.name
        \o "\nThreat Type: "
        \o scenario.threat_type
        \o "\n\nIn this stage, attackers would typically:\n+ Gather information about the target organization\n+ Identify potential entry points and vulnerabilities\n+ Research key personnel and organizational structure\n+ Collect technical information about systems and infrastructure\n\nDefensive Measures:\n+ Monitor for unusual reconnaissance activities\n+ Implement proper information disclosure policies\n+ Use threat intelligence to identify scanning attempts\n+ Educate employees about social engineering attempts\n\nIndicators of Compromise:\n+ Unusual network scanning activities\n+ Suspicious social media research\n+ Unexpected information requests\n+ Anomalous DNS queries\n"
    ELSE IF stage_type = "attack_planning" THEN
        "\n[ATTACK PLANNING STAGE]\nScenario: "
        \o scenario.name
        \o "\nThreat Type: "
        \o scenario.threat_type
        \o "\n\nAttack planning typically involves:\n+ Analyzing gathered reconnaissance data\n+ Selecting appropriate attack vectors\n+ Developing custom tools or adapting existing ones\n+ Planning timing and sequence of attack phases\n\nDefensive Strategies:\n+ Implement defense-in-depth architecture\n+ Regular vulnerability assessments and patching\n+ Employee security awareness training\n+ Incident response plan preparation\n\nKey Prevention Points:\n+ Network segmentation\n+ Access controls and privilege management\n+ Security monitoring and alerting\n+ Regular security audits\n"
    ELSE IF stage_type = "execution" THEN
        "\n[EXECUTION STAGE]\nScenario: "
        \o scenario.name
        \o "\nThreat Type: "
        \o scenario.threat_type
        \o "\n\nExecution phase characteristics:\n+ Initial access attempts using planned attack vectors\n+ Exploitation of identified vulnerabilities\n+ Deployment of malicious payloads or social engineering\n+ Attempts to establish foothold in target environment\n\nDetection Opportunities:\n+ Endpoint detection and response (EDR) systems\n+ Network traffic analysis\n+ Behavioral analytics\n+ User activity monitoring\n\nImmediate Response Actions:\n+ Isolate affected systems\n+ Preserve evidence for analysis\n+ Activate incident response team\n+ Communicate with stakeholders\n"
    ELSE
        "\n["
        \o ToUpper(stage_type)
        \o " STAGE]\nScenario: "
        \o scenario.name
        \o "\nThreat Type: "
        \o scenario.threat_type
        \o "\n\nStage Description: "
        \o description
        \o "\n\nThis simulation stage would demonstrate key aspects of the "
        \o stage_type
        \o " phase\nin a "
        \o scenario.threat_type
        \o " attack scenario. Educational content and defensive\nrecommendations would be provided here.\n\nNote: Full content generation requires LLM provider configuration.\n"

\* ThreatSimulator._generate_fallback_content.  scenario.attr_error is the
\* message of the exception that reading scenario.threat_type raises ("" when
\* the attribute reads normally, as on every ThreatScenario instance).
GenerateFallbackContent(scenario, stage_type, description) ==
    IF scenario.attr_error # ""
    THEN [kind |-> "raise", msg |-> scenario.attr_error]
    ELSE [kind |-> "content", content |-> FallbackTemplate(scenario, stage_type, description)]

\* _generate_stage_content letting the lack of a provider surface as an error
StageContentStartRaising(mgr, scenario, stage_type, description) ==
    IF ~ManagerIsAvailable(mgr)
    THEN [kind |-> "raise", msg |-> "No LLM provider available"]
    ELSE IF scenario.attr_error # ""
    THEN GenerateFallbackContent(scenario, stage_type, description)
    ELSE [kind |-> "await"]

\* ThreatSimulator._generate_stage_content up to its first await.  With an
\* unreadable scenario the prompt builders raise, the except branch calls the
\* fallback generator and that raises too.
StageContentStart(mgr, scenario, stage_type, description) ==
    IF ~ManagerIsAvailable(mgr)
    THEN GenerateFallbackContent(scenario, stage_type, description)
    ELSE IF scenario.attr_error # ""
    THEN GenerateFallbackContent(scenario, stage_type, description)
    ELSE [kind |-> "await"]

\* ThreatSimulator._generate_stage_content from the return of the first
\* generate_content call (m1) to its next await or its return
StageContentAfterFirst(scenario, stage_type, description, m1) ==
    IF m1.kind = "raise"
    THEN GenerateFallbackContent(scenario, stage_type, description)
    ELSE IF m1.resp.content # ""
    THEN IF m1.resp.finish_reason = "length"
         THEN [kind |-> "await"]
         ELSE [kind |-> "content", content |-> m1.resp.content]
    ELSE GenerateFallbackContent(scenario, stage_type, description)

\* ThreatSimulator._generate_stage_content from the return of the retry call
\* (m2) to its return; first_content is the truncated first response
StageContentAfterRetry(scenario, stage_type, description, first_content, m2) ==
    IF m2.kind = "raise"
    THEN GenerateFallbackContent(scenario, stage_type, description)
    ELSE IF m2.resp.content # ""
    THEN [kind |-> "content", content |-> m2.resp.content]
    ELSE [kind |-> "content", content |-> first_content]

\* IsCritical without the lower(): "critical" in str(e)
IsCriticalCaseSensitive(msg) == Contains(msg, "critical")

\* "critical" in str(e).lower()
IsCritical(msg) == Contains(ToLower(msg), "critical")

(***************************************************************************)
(* core/models.py (SimulationResult, SimulationStage)                      *)
(***************************************************************************)
\* SimulationResult.mark_completed(success, error_message) at time t
MarkCompleted(res, success, error_message, t) ==
    [res EXCEPT !.status = IF success THEN "completed" ELSE "failed",
                !.success = IF success THEN "True" ELSE "False",
                !.error_message = error_message,
                !.end_time = t]

\* SimulationResult.add_stage(stage)
AddStage(res, stage) == [res EXCEPT !.stages = Append(res.stages, stage)]

\* the place of a SimulationResult that has not been constructed
NoResult ==
    [status |-> "NONE", stages |-> << >>, success |-> "None",
     error_message |-> "None", end_time |-> 0]

\* a SimulationResult constructed with the status PENDING
NewResultPending ==
    [status |-> "pending", stages |-> << >>, success |-> "None",
     error_message |-> "None", end_time |-> 0]

\* SimulationResult(status=RUNNING, ...) as execute_simulation constructs it
NewResult ==
    [status |-> "running", stages |-> << >>, success |-> "None",
     error_message |-> "None", end_time |-> 0]

(***************************************************************************)
(* State                                                                   *)
(***************************************************************************)
VARIABLES
    max_stages,          \* ThreatSimulator.max_stages
    llm_provider,        \* ThreatSimulator.llm_provider: the LLMManager
    provider_script,     \* what the manager's provider does: first call, retry
    active_simulations,  \* keys of ThreatSimulator._active_simulations
    result,              \* the SimulationResult of each execute_simulation call
    pc,                  \* where each execute_simulation call stands
    scenario,            \* the scenario argument of each call
    i,                   \* 1-based loop position in _execute_stages
    stage_start,         \* stage_start of the iteration under way
    first_content,       \* response.content kept while the retry is awaited
    cancel_ret,          \* what the last cancel_simulation call returned
    now,                 \* datetime.utcnow()
    m_self,              \* an LLMManager: its provider and _providers
    m_pc,                \* where its generate_content call stands
    m_args,              \* provider_name, scenario_type and chosen provider of that call
    m_out,               \* what the provider call ended with
    m_ret                \* the LLMResponse generate_content returned

sim_vars == << max_stages, llm_provider, provider_script, active_simulations, result,
               pc, scenario, i, stage_start, first_content, cancel_ret, now >>

mgr_vars == << m_self, m_pc, m_args, m_out, m_ret >>

\* OpenRouterProvider.generate_content: one call
VARIABLES
    or_pc,               \* where the call stands
    or_attempt,          \* the loop variable `attempt`
    or_http,             \* what each session.post so far ended with
    or_sleeps,           \* the arguments of the asyncio.sleep calls so far
    or_ret               \* what the call returned

or_vars == << or_pc, or_attempt, or_http, or_sleeps, or_ret >>

\* ThreatSimulator._generate_stage_content: one call, with the calls it makes
VARIABLES
    g_pc,                \* where the call stands
    g_in,                \* its arguments: scenario and position in stages_config
    g_calls,             \* the generate_content calls made so far (their keywords)
    g_resp,              \* what each of them returned or raised
    g_ret                \* what the call returned or raised

stage_vars == << g_pc, g_in, g_calls, g_resp, g_ret >>

\* utils/auto_content_saver.py: AutoContentSaver
VARIABLES
    library,             \* the files under generated_content/: folder, category, content
    sv_pc,               \* where save_simulation_content stands
    sv_ret,              \* the saved_files it returned: the indexes of the saved items
    cat_in,              \* the arguments of the last categorize_content call
    cat_ret              \* and what it returned

saver_vars == << library, sv_pc, sv_ret, cat_in, cat_ret >>

\* deployment/__init__.py: ThreatDeploymentEngine with its metrics collector
VARIABLES
    active_campaigns,    \* ThreatMetricsCollector.active_campaigns, in order of allocation
    d_pc,                \* how the last deploy_threat_campaign call ended
    d_config,            \* its deployment_config
    d_calls,             \* the channels whose service.deploy it invoked, in order
    d_ret                \* what it returned or raised

engine_vars == << active_campaigns, d_pc, d_config, d_calls, d_ret >>

\* deployment/integrations.py: one Microsoft365Integration or SlackIntegration
VARIABLES
    access_token,        \* whether Microsoft365Integration.access_token is set
    p_pc,                \* position of the deploy_content call
    p_platform,          \* the integration it runs on
    p_targets,           \* len(targets)
    p_log,               \* what each target met so far, in order
    successful_deployments,
    failed_deployments,
    p_ret                \* what the call returned or raised

platform_vars == << access_token, p_pc, p_platform, p_targets, p_log,
                    successful_deployments, failed_deployments, p_ret >>

\* fix_templates.py and core/template_manager_pro.py: the template fixers
VARIABLES
    files,               \* the template files of the directory: name -> content
    backups,             \* the backup copies written so far: path -> content
    epoch,               \* the clock, in seconds
    f_pc,                \* "idle", or "backed_up" between shutil.copy2 and the write
    f_pending,           \* the fixed template the running call is about to write
    f_ret,               \* what the last call returned or raised
    fix_log              \* per file, who was applied to it, in order

fixer_vars == << files, backups, epoch, f_pc, f_pending, f_ret, fix_log >>

\* the variables of the components beside the simulator and the manager
other_vars == << or_vars, stage_vars, saver_vars, engine_vars, platform_vars, fixer_vars >>

vars == << sim_vars, mgr_vars, other_vars >>

\* result_id of the r-th call (uuid4: every call gets a fresh one)
RunIds == 1..MaxRuns

\* a result_id no call has been given
UnknownId == 0

(***************************************************************************)
(* Inputs                                                                  *)
(***************************************************************************)
\* an LLMResponse as a provider adapter returns it
ProviderResponse(content, provider, finish_reason) ==
    [content |-> content, provider |-> provider, model |-> "m", error |-> "None",
     scenario_type |-> "None", is_real_ai |-> FALSE, finish_reason |-> finish_reason]

RealContent ==
    "Subject: Action required\nFrom: it-support@example.com\n\nDear colleague, please review the attached training notice."

TruncatedContent == "Subject: Action required\nFrom: it-supp"

OutRaise == [kind |-> "raise", msg |-> "Connection timed out"]

OutNone == [kind |-> "none"]

OutReal == [kind |-> "resp", resp |-> ProviderResponse(RealContent, "openrouter", "None")]

OutTruncated == [kind |-> "resp", resp |-> ProviderResponse(TruncatedContent, "openrouter", "length")]

OutEmpty == [kind |-> "resp", resp |-> ProviderResponse("", "openrouter", "stop")]

OutBare == [kind |-> "resp", resp |-> ProviderResponse("Error: Failed to generate content", "<unset>", "None")]

\* the behaviours of the LLM layer: unavailable, raising, returning nothing,
\* empty, truncated (then complete, truncated again, or failing) or real
\* content
ProviderOutcomes == {OutRaise, OutNone, OutReal, OutTruncated, OutEmpty, OutBare}

ProviderScripts ==
    {[first |-> o, retry |-> o] : o \in ProviderOutcomes \ {OutTruncated}}
    \cup {[first |-> OutTruncated, retry |-> o] : o \in {OutReal, OutTruncated, OutNone, OutEmpty}}

\* an LLMManager without providers and one with OpenRouter as the default
Managers ==
    {[provider |-> NoProvider, providers |-> << >>],
     [provider |-> "openrouter", providers |-> << "openrouter" >>]}

\* messages of the exceptions an unreadable scenario attribute raises
ErrorMessages ==
    {"'NoneType' object has no attribute 'value'",
     "CRITICAL: scenario store unreachable",
     "lookup failed (Critical)"}

Scenarios ==
    {[name |-> "", threat_type |-> "phishing", attr_error |-> ""]}
    \cup {[name |-> "Q3 Phish", threat_type |-> "phishing", attr_error |-> e] :
             e \in {""} \cup ErrorMessages}

(***************************************************************************)
(* core/simulator.py: ThreatSimulator                                      *)
(***************************************************************************)
\* the successful SimulationStage of _execute_stages, iteration idx (the
\* timestamp field is left out: only duration_seconds is read from it)
SuccessStage(idx, content, t_start, t_end) ==
    [stage_type |-> stages_config[idx].type,
     content |-> content,
     success |-> TRUE,
     stage_number |-> idx,
     duration_seconds |-> t_end - t_start]

\* the failed SimulationStage of _execute_stages, iteration idx
FailedStage(idx, msg) ==
    [stage_type |-> stages_config[idx].type,
     content |-> "Stage execution failed",
     success |-> FALSE,
     error_message |-> msg,
     stage_number |-> idx]

\* Returned that completes the run as failed
ReturnedAsFailed(res, t) ==
    [pc |-> "returned", res |-> MarkCompleted(res, FALSE, "None", t), i |-> 0]

\* the tail of execute_simulation once _execute_stages has returned:
\* mark_completed(success=True), then the finally block
Returned(res, t) == [pc |-> "returned", res |-> MarkCompleted(res, TRUE, "None", t), i |-> 0]

RECURSIVE RunStages(_, _, _, _)
\* _execute_stages from the top of iteration idx, at time t, up to the next
\* point where the coroutine is suspended (the LLM call or asyncio.sleep) or
\* to the return of execute_simulation
RunStages(res, idx, scen, t) ==
    IF idx > Len(Slice(stages_config, max_stages))
    THEN Returned(res, t)
    ELSE LET g == StageContentStart(llm_provider, scen, stages_config[idx].type,
                                    stages_config[idx].description)
         IN  IF g.kind = "await"
             THEN [pc |-> "gen", res |-> res, i |-> idx]
             ELSE IF g.kind = "content"
             THEN [pc |-> "sleep", res |-> AddStage(res, SuccessStage(idx, g.content, t, t)), i |-> idx]
             ELSE IF IsCritical(g.msg)
             THEN Returned(AddStage(res, FailedStage(idx, g.msg)), t)
             ELSE RunStages(AddStage(res, FailedStage(idx, g.msg)), idx + 1, scen, t)

\* StageDone that does not add the record of a successful stage
StageDoneSkipsRecord(r, g) ==
    IF g.kind = "content"
    THEN [pc |-> "sleep", res |-> result[r], i |-> i[r]]
    ELSE IF IsCritical(g.msg)
    THEN Returned(AddStage(result[r], FailedStage(i[r], g.msg)), now)
    ELSE RunStages(AddStage(result[r], FailedStage(i[r], g.msg)),
                   i[r] + 1, scenario[r], now)

\* _execute_stages from the return of _generate_stage_content (g: content or
\* an exception) in iteration i[r]
StageDone(r, g) ==
    IF g.kind = "content"
    THEN [pc |-> "sleep",
          res |-> AddStage(result[r], SuccessStage(i[r], g.content, stage_start[r], now)),
          i |-> i[r]]
    ELSE IF IsCritical(g.msg)
    THEN Returned(AddStage(result[r], FailedStage(i[r], g.msg)), now)
    ELSE RunStages(AddStage(result[r], FailedStage(i[r], g.msg)),
                   i[r] + 1, scenario[r], now)

\* Advance without the pop of the finally block
AdvanceKeepsRun(r, st, tracked) ==
    /\ pc' = [pc EXCEPT ![r] = st.pc]
    /\ result' = [result EXCEPT ![r] = st.res]
    /\ i' = [i EXCEPT ![r] = st.i]
    /\ stage_start' = [stage_start EXCEPT ![r] = now]
    /\ active_simulations' = tracked

\* the coroutine of call r moves to state st; tracked is the active-runs map
\* it finds, from which the finally block of execute_simulation pops r
Advance(r, st, tracked) ==
    /\ pc' = [pc EXCEPT ![r] = st.pc]
    /\ result' = [result EXCEPT ![r] = st.res]
    /\ i' = [i EXCEPT ![r] = st.i]
    /\ stage_start' = [stage_start EXCEPT ![r] = now]
    /\ active_simulations' =
         IF st.pc = "returned" THEN tracked \ {r} ELSE tracked

\* execute_simulation without the check of the scenario's name
ExecuteSimulationUnvalidated(r, scen) ==
    /\ pc[r] = "idle"
    /\ \A q \in RunIds : q < r => pc[q] # "idle"
    /\ scenario' = [scenario EXCEPT ![r] = scen]
    /\ Advance(r, RunStages(NewResult, 1, scen, now), active_simulations \cup {r})
    /\ UNCHANGED << mgr_vars, other_vars, max_stages, llm_provider, provider_script, first_content, cancel_ret, now >>

\* execute_simulation(scenario) is called: up to its first suspension
ExecuteSimulation(r, scen) ==
    /\ pc[r] = "idle"
    \* result ids are interchangeable: the calls are numbered in the order they start
    /\ \A q \in RunIds : q < r => pc[q] # "idle"
    /\ scenario' = [scenario EXCEPT ![r] = scen]
    /\ IF scen.name = ""
       THEN /\ pc' = [pc EXCEPT ![r] = "raised"]
            /\ UNCHANGED << result, i, stage_start, active_simulations >>
       ELSE Advance(r, RunStages(NewResult, 1, scen, now), active_simulations \cup {r})
    /\ UNCHANGED << mgr_vars, other_vars, max_stages, llm_provider, provider_script, first_content, cancel_ret, now >>

\* the first generate_content call of _generate_stage_content returns
LLMReturns(r) ==
    /\ pc[r] = "gen"
    /\ LET stage == stages_config[i[r]]
           m1 == GenerateContent(llm_provider, NoProvider,
                                 "threat_simulation_" \o stage.type, provider_script.first)
           g == StageContentAfterFirst(scenario[r], stage.type, stage.description, m1)
       IN  IF g.kind = "await"
           THEN /\ pc' = [pc EXCEPT ![r] = "retry"]
                /\ first_content' = [first_content EXCEPT ![r] = m1.resp.content]
                /\ UNCHANGED << result, i, stage_start, active_simulations >>
           ELSE /\ Advance(r, StageDone(r, g), active_simulations)
                /\ UNCHANGED first_content
    /\ UNCHANGED << mgr_vars, other_vars, max_stages, llm_provider, provider_script, scenario, cancel_ret, now >>

\* the retry generate_content call of _generate_stage_content returns
RetryReturns(r) ==
    /\ pc[r] = "retry"
    /\ LET stage == stages_config[i[r]]
           m2 == GenerateContent(llm_provider, NoProvider,
                                 "threat_simulation_" \o stage.type, provider_script.retry)
           g == StageContentAfterRetry(scenario[r], stage.type, stage.description,
                                       first_content[r], m2)
       IN  Advance(r, StageDone(r, g), active_simulations)
    /\ first_content' = [first_content EXCEPT ![r] = ""]
    /\ UNCHANGED << mgr_vars, other_vars, max_stages, llm_provider, provider_script, scenario, cancel_ret, now >>

\* asyncio.sleep(0.1) of _execute_stages returns
SleepDone(r) ==
    /\ pc[r] = "sleep"
    /\ Advance(r, RunStages(result[r], i[r] + 1, scenario[r], now), active_simulations)
    /\ UNCHANGED << mgr_vars, other_vars, max_stages, llm_provider, provider_script, scenario, first_content,
                    cancel_ret, now >>

\* cancel_simulation looking the id up among all results instead of the
\* active ones
CancelSimulationAnyResult(result_id) ==
    /\ IF result_id \in RunIds /\ result[result_id] # NoResult
       THEN /\ result' = [result EXCEPT ![result_id] =
                    MarkCompleted([result[result_id] EXCEPT !.status = "cancelled"],
                                  FALSE, "Simulation cancelled by user", now)]
            /\ active_simulations' = active_simulations \ {result_id}
            /\ cancel_ret' = "True"
       ELSE /\ cancel_ret' = "False"
            /\ UNCHANGED << result, active_simulations >>
    /\ UNCHANGED << mgr_vars, other_vars, max_stages, llm_provider, provider_script, pc, scenario, i, stage_start,
                    first_content, now >>

\* ThreatSimulator.cancel_simulation(result_id)
CancelSimulation(result_id) ==
    /\ IF result_id \in active_simulations
       THEN /\ result' = [result EXCEPT ![result_id] =
                    MarkCompleted([result[result_id] EXCEPT !.status = "cancelled"],
                                  FALSE, "Simulation cancelled by user", now)]
            /\ active_simulations' = active_simulations \ {result_id}
            /\ cancel_ret' = "True"
       ELSE /\ cancel_ret' = "False"
            /\ UNCHANGED << result, active_simulations >>
    /\ UNCHANGED << mgr_vars, other_vars, max_stages, llm_provider, provider_script, pc, scenario, i, stage_start,
                    first_content, now >>

\* the wall clock advances
Tick ==
    /\ now < MaxClock
    /\ now' = now + 1
    /\ UNCHANGED << mgr_vars, other_vars, max_stages, llm_provider, provider_script, active_simulations, result,
                    pc, scenario, i, stage_start, first_content, cancel_ret >>

\* the caller's scenario object becomes unreadable while call r is suspended
ScenarioBreaks(r, msg) ==
    /\ pc[r] \in {"gen", "retry", "sleep"}
    /\ scenario[r].attr_error = ""
    /\ scenario' = [scenario EXCEPT ![r].attr_error = msg]
    /\ UNCHANGED << mgr_vars, other_vars, max_stages, llm_provider, provider_script, active_simulations, result,
                    pc, i, stage_start, first_content, cancel_ret, now >>

NoScenario == [name |-> "", threat_type |-> "", attr_error |-> ""]

\* the names of the two template files of the directory
TemplateFiles == {"bec_lure.yaml", "bec_lure.yml"}

\* a mapping without keys
EmptyDict == [key \in {} |-> ""]

\* every component beside the simulator and the manager right after its
\* __init__, with nothing called on it; both template files hold `doc`
ComponentsAtRest(doc) ==
    /\ or_pc = "idle"
    /\ or_attempt = 0
    /\ or_http = << >>
    /\ or_sleeps = << >>
    /\ or_ret = [kind |-> "unset"]
    /\ g_pc = "idle"
    /\ g_in = [scenario |-> [name |-> "", threat_type |-> "", attr_error |-> "", content_type |-> ""],
                stage |-> 0]
    /\ g_calls = << >>
    /\ g_resp = << >>
    /\ g_ret = [kind |-> "unset"]
    /\ library = {}
    /\ sv_pc = "idle"
    /\ sv_ret = << >>
    /\ cat_in = [content |-> "", threat_type |-> ""]
    /\ cat_ret = << >>
    /\ active_campaigns = << >>
    /\ d_pc = "idle"
    /\ d_config = [compliance_approved |-> FALSE, test_mode |-> TRUE,
                   channels |-> << >>, targets |-> << >>]
    /\ d_calls = << >>
    /\ d_ret = [kind |-> "unset"]
    /\ access_token = FALSE
    /\ p_pc = "idle"
    /\ p_platform = "microsoft365"
    /\ p_targets = 0
    /\ p_log = << >>
    /\ successful_deployments = 0
    /\ failed_deployments = 0
    /\ p_ret = [kind |-> "unset"]
    /\ backups = EmptyDict
    /\ epoch = 0
    /\ f_pc = "idle"
    /\ f_pending = [who |-> "nobody"]
    /\ f_ret = [kind |-> "unset"]
    /\ fix_log = [file \in TemplateFiles |-> << >>]
    /\ files = [file \in TemplateFiles |-> [header |-> << >>, doc |-> doc]]

(***************************************************************************)
(* llm/manager.py: LLMManager.generate_content as a process                *)
(***************************************************************************)
NoArgs == [provider_name |-> NoProvider, scenario_type |-> "general", provider |-> NoProvider]

NoResponse == ProviderResponse("", "<unset>", "None")

\* the manager variables of a manager on which generate_content is not called
ManagerAtRest ==
    /\ m_self = [provider |-> NoProvider, providers |-> << >>]
    /\ m_pc = "idle"
    /\ m_args = NoArgs
    /\ m_out = OutNone
    /\ m_ret = NoResponse

\* the simulator variables of a simulator on which nothing is called
SimulatorAtRest ==
    /\ max_stages = 10
    /\ llm_provider = [provider |-> NoProvider, providers |-> << >>]
    /\ provider_script = [first |-> OutNone, retry |-> OutNone]
    /\ active_simulations = {}
    /\ result = [r \in RunIds |-> NoResult]
    /\ pc = [r \in RunIds |-> "idle"]
    /\ scenario = [r \in RunIds |-> NoScenario]
    /\ i = [r \in RunIds |-> 0]
    /\ stage_start = [r \in RunIds |-> 0]
    /\ first_content = [r \in RunIds |-> ""]
    /\ cancel_ret = "None"
    /\ now = 0

\* every component right after construction, nothing called on any
InitAtRest ==
    /\ SimulatorAtRest
    /\ ManagerAtRest
    /\ ComponentsAtRest(EmptyDict)

\* LLMManager.__init__ with _initialize_providers: `provider` is the provider
\* argument, `keyed` the names whose config carries an api_key
NewManager(provider, keyed) ==
    LET registered == SelectSeq(<< "openai", "anthropic", "openrouter" >>,
                                LAMBDA n : n \in keyed)
    IN  [provider |-> IF provider = NoProvider /\ Len(registered) > 0
                      THEN registered[1] ELSE provider,
         providers |-> registered]

\* contents a provider may answer with
Contents ==
    {"", "Hi", "   Hi there   ", "123456789", " 123456789 ", "0123456789",
     "[FALLBACK", "[FALLBACK] canned text of the adapter",
     "[Content generation unavailable - check the API key]",
     RealContent}

\* what a provider call may end with
MgrOutcomes ==
    {OutNone, OutRaise, [kind |-> "raise", msg |-> ""]}
    \cup {[kind |-> "resp",
           resp |-> [ProviderResponse(c, p, "None") EXCEPT !.is_real_ai = a]] :
            c \in Contents, p \in {"openrouter", "fallback", "<unset>"}, a \in BOOLEAN}

\* generate_content(prompt, scenario_type, ..., provider_name) up to the
\* provider call
MgrGenerateContent(provider_name, scenario_type) ==
    /\ m_pc = "idle"
    /\ m_args' = [provider_name |-> provider_name, scenario_type |-> scenario_type,
                  provider |-> GetProvider(m_self, provider_name)]
    /\ m_pc' = IF m_args'.provider = NoProvider THEN "raised" ELSE "awaiting"
    /\ UNCHANGED << sim_vars, other_vars, m_self, m_out, m_ret >>

\* the provider call ends with `out`; generate_content runs to its return
MgrProviderDone(out) ==
    /\ m_pc = "awaiting"
    /\ m_out' = out
    /\ m_ret' = AfterProviderCall(out, m_args.scenario_type)
    /\ m_pc' = "returned"
    /\ UNCHANGED << sim_vars, other_vars, m_self, m_args >>

InitLLM ==
    /\ max_stages = 10
    /\ llm_provider = [provider |-> NoProvider, providers |-> << >>]
    /\ provider_script = [first |-> OutNone, retry |-> OutNone]
    /\ active_simulations = {}
    /\ result = [r \in RunIds |-> NoResult]
    /\ pc = [r \in RunIds |-> "idle"]
    /\ scenario = [r \in RunIds |-> NoScenario]
    /\ i = [r \in RunIds |-> 0]
    /\ stage_start = [r \in RunIds |-> 0]
    /\ first_content = [r \in RunIds |-> ""]
    /\ cancel_ret = "None"
    /\ now = 0
    \* a config entry that is no dict makes _initialize_providers raise at its
    \* .get('api_key'): the except clause swallows it, the names registered
    \* before it stay and no default is chosen
    /\ LET Interrupted == {[provider |-> NoProvider, providers |-> << "openai" >>],
                           [provider |-> NoProvider, providers |-> << "openai", "anthropic" >>]}
       IN  m_self \in Interrupted \cup
                      {NewManager(p, k) : p \in {NoProvider, "custom"},
                                          k \in SUBSET {"openai", "anthropic", "openrouter"}}
    /\ m_pc = "idle"
    /\ m_args = NoArgs
    /\ m_out = OutNone
    /\ m_ret = NoResponse
    /\ ComponentsAtRest(EmptyDict)

NextLLM ==
    \/ \E n \in {NoProvider, "openai", "openrouter", "ollama"} :
         \E t \in {"general", "threat_simulation_execution"} : MgrGenerateContent(n, t)
    \/ \E out \in MgrOutcomes : MgrProviderDone(out)

SpecLLM == InitLLM /\ [][NextLLM]_vars

\* a simulator right after ThreatSimulator.__init__
InitSimulator ==
    /\ llm_provider \in Managers
    /\ provider_script \in ProviderScripts
    \* a manager without providers never calls one
    /\ ~ManagerIsAvailable(llm_provider) => provider_script = [first |-> OutNone, retry |-> OutNone]
    /\ active_simulations = {}
    /\ result = [r \in RunIds |-> NoResult]
    /\ pc = [r \in RunIds |-> "idle"]
    /\ scenario = [r \in RunIds |-> NoScenario]
    /\ i = [r \in RunIds |-> 0]
    /\ stage_start = [r \in RunIds |-> 0]
    /\ first_content = [r \in RunIds |-> ""]
    /\ cancel_ret = "None"
    /\ now = 0
    /\ ManagerAtRest
    /\ ComponentsAtRest(EmptyDict)

Init ==
    /\ InitSimulator
    /\ max_stages \in 1..MaxConcStages

Next ==
    \/ \E r \in RunIds : \E scen \in Scenarios : ExecuteSimulation(r, scen)
    \/ \E r \in RunIds : LLMReturns(r)
    \/ \E r \in RunIds : RetryReturns(r)
    \/ \E r \in RunIds : SleepDone(r)
    \/ \E id \in RunIds \cup {UnknownId} : CancelSimulation(id)

Spec == Init /\ [][Next]_vars

(***************************************************************************)
(* One execute_simulation call at a time, on simulators of every size, with *)
(* the clock running and the scenario object under the caller's hands.      *)
(***************************************************************************)
\* max_stages of the simulators: fewer than, exactly and more than the seven
\* configured stages (10 is the default)
SeqMaxStages == {3, 7, 10}

InitSeq ==
    /\ InitSimulator
    /\ max_stages \in SeqMaxStages

NextSeq ==
    \/ \E scen \in Scenarios : ExecuteSimulation(1, scen)
    \/ LLMReturns(1)
    \/ RetryReturns(1)
    \/ SleepDone(1)
    \/ \E id \in {1, UnknownId} : CancelSimulation(id)
    \/ Tick
    \/ \E msg \in ErrorMessages : ScenarioBreaks(1, msg)

SpecSeq == InitSeq /\ [][NextSeq]_vars

(***************************************************************************)
(* llm/providers/openrouter_provider.py: OpenRouterProvider                *)
(***************************************************************************)
\* max_retries of generate_content
max_retries == 2

\* retry_delay of generate_content, in seconds (1.0)
retry_delay == 1

\* `attempt == max_retries` never holding: the budget check is off by one
LastAttemptOffByOne(attempt) == attempt = max_retries + 1

\* `attempt == max_retries`
LastAttempt(attempt) == attempt = max_retries

\* the body of the retry loop from the end of session.post to the return or
\* the asyncio.sleep; the outer `except Exception` returns None
AfterPost(attempt, out) ==
    IF out.kind = "response" /\ out.status = 200
    THEN IF Len(out.choices) > 0
         THEN [pc |-> "returned",
               ret |-> [kind |-> "resp",
                        resp |-> ProviderResponse(out.choices[1], "openrouter", "None")]]
         ELSE [pc |-> "returned", ret |-> OutNone]
    ELSE IF out.kind = "error"
    THEN [pc |-> "returned", ret |-> OutNone]
    ELSE IF LastAttempt(attempt)
    THEN [pc |-> "returned", ret |-> OutNone]
    ELSE [pc |-> "sleep", ret |-> or_ret]

\* generate_content(prompt, ...) is called on a provider whose api_key is set
\* or not: up to the first session.post
ORGenerateContent(api_key) ==
    /\ or_pc = "idle"
    /\ IF api_key
       THEN /\ or_pc' = "post"
            /\ or_attempt' = 0
            /\ UNCHANGED or_ret
       ELSE /\ or_pc' = "returned"
            /\ or_ret' = OutNone
            /\ UNCHANGED or_attempt
    /\ UNCHANGED << sim_vars, mgr_vars, stage_vars, saver_vars, engine_vars, platform_vars, fixer_vars,
                    or_http, or_sleeps >>

\* the session.post of the attempt under way ends with `out`
ORPostDone(out) ==
    /\ or_pc = "post"
    /\ or_http' = Append(or_http, out)
    /\ LET st == AfterPost(or_attempt, out)
       IN  /\ or_pc' = st.pc
           /\ or_ret' = st.ret
           /\ or_sleeps' = IF st.pc = "sleep"
                           THEN Append(or_sleeps, retry_delay * (or_attempt + 1))
                           ELSE or_sleeps
    /\ UNCHANGED << sim_vars, mgr_vars, stage_vars, saver_vars, engine_vars, platform_vars, fixer_vars,
                    or_attempt >>

\* asyncio.sleep returns and `continue` takes the next value of
\* range(max_retries + 1); a loop that runs out falls off the end of the
\* function, which returns None
ORSleepDone ==
    /\ or_pc = "sleep"
    /\ IF or_attempt + 1 < max_retries + 1
       THEN /\ or_attempt' = or_attempt + 1
            /\ or_pc' = "post"
            /\ UNCHANGED or_ret
       ELSE /\ or_pc' = "returned"
            /\ or_ret' = OutNone
            /\ UNCHANGED or_attempt
    /\ UNCHANGED << sim_vars, mgr_vars, stage_vars, saver_vars, engine_vars, platform_vars, fixer_vars,
                    or_http, or_sleeps >>

\* what one session.post may end with: asyncio.TimeoutError, aiohttp.ClientError,
\* any other exception (a body that is not the expected JSON), or a response
\* with its status and the contents of data['choices']
NextOR ==
    LET HttpOutcome(kind, status, choices) ==
            [kind |-> kind, status |-> status, choices |-> choices]
        HttpOutcomes ==
            {HttpOutcome("timeout", 0, << >>),
             HttpOutcome("client_error", 0, << >>),
             HttpOutcome("error", 200, << >>),
             HttpOutcome("response", 200, << RealContent >>),
             HttpOutcome("response", 200, << "" >>),
             HttpOutcome("response", 200, << >>),
             HttpOutcome("response", 429, << >>),
             HttpOutcome("response", 500, << >>)}
    IN  \/ \E api_key \in BOOLEAN : ORGenerateContent(api_key)
        \/ \E out \in HttpOutcomes : ORPostDone(out)
        \/ ORSleepDone

SpecOR == InitAtRest /\ [][NextOR]_vars

(***************************************************************************)
(* core/simulator.py: one _generate_stage_content call and its LLM calls   *)
(***************************************************************************)
\* content_type as _generate_stage_content infers it: scenario.metadata's
\* "content_type", else by the words of the threat type
InferContentType(scen) ==
    IF scen.content_type # "" THEN scen.content_type
    ELSE LET threat_str == ToLower(scen.threat_type)
         IN  IF Contains(threat_str, "phishing") THEN "email_phishing"
             ELSE IF Contains(threat_str, "sms") THEN "sms_phishing"
             ELSE IF Contains(threat_str, "social") THEN "social_media_post"
             ELSE IF Contains(threat_str, "vishing") \/ Contains(threat_str, "voice")
                  THEN "voice_script"
             ELSE ""

\* max_tokens_by_type.get(content_type, 1000)
MaxTokens(content_type) ==
    LET max_tokens_by_type ==
            [email_phishing |-> 2000, sms_phishing |-> 500, voice_script |-> 2000,
             document_lure |-> 3000, web_page |-> 2000, social_media_post |-> 500,
             chat_message |-> 500, pretext_scenario |-> 1500]
    IN  IF content_type \in DOMAIN max_tokens_by_type
        THEN max_tokens_by_type[content_type]
        ELSE 1000

\* the retry asking for twice the tokens
RetryMaxTokensDoubled(max_tokens) == max_tokens * 2

\* int(max_tokens * 1.5)
RetryMaxTokens(max_tokens) == (max_tokens * 3) \div 2

\* the keywords of a generate_content call of _generate_stage_content
LLMCall(stage_type, max_tokens) ==
    [scenario_type |-> "threat_simulation_" \o stage_type, max_tokens |-> max_tokens]

\* _generate_stage_content(scenario, stage_type, description) is called for
\* the k-th configured stage: up to its first await or its return
GenerateStageContent(scen, k) ==
    /\ g_pc = "idle"
    /\ g_in' = [scenario |-> scen, stage |-> k]
    /\ LET stage == stages_config[k]
           g == StageContentStart(llm_provider, scen, stage.type, stage.description)
       IN  IF g.kind = "await"
           THEN /\ g_pc' = "first"
                /\ g_calls' = << LLMCall(stage.type, MaxTokens(InferContentType(scen))) >>
                /\ UNCHANGED g_ret
           ELSE /\ g_pc' = "returned"
                /\ g_ret' = g
                /\ UNCHANGED g_calls
    /\ UNCHANGED << sim_vars, mgr_vars, or_vars, saver_vars, engine_vars, platform_vars, fixer_vars,
                    g_resp >>

\* the first generate_content call returns, its provider having ended with out
FirstCallReturns(out) ==
    /\ g_pc = "first"
    /\ LET stage == stages_config[g_in.stage]
           m1 == GenerateContent(llm_provider, NoProvider, g_calls[1].scenario_type, out)
           g == StageContentAfterFirst(g_in.scenario, stage.type, stage.description, m1)
       IN  /\ g_resp' = << m1 >>
           /\ IF g.kind = "await"
              THEN /\ g_pc' = "retry"
                   /\ g_calls' = Append(g_calls,
                                    LLMCall(stage.type, RetryMaxTokens(g_calls[1].max_tokens)))
                   /\ UNCHANGED g_ret
              ELSE /\ g_pc' = "returned"
                   /\ g_ret' = g
                   /\ UNCHANGED g_calls
    /\ UNCHANGED << sim_vars, mgr_vars, or_vars, saver_vars, engine_vars, platform_vars, fixer_vars,
                    g_in >>

\* the retry generate_content call returns, its provider having ended with out
RetryCallReturns(out) ==
    /\ g_pc = "retry"
    /\ LET stage == stages_config[g_in.stage]
           m2 == GenerateContent(llm_provider, NoProvider, g_calls[2].scenario_type, out)
       IN  /\ g_resp' = Append(g_resp, m2)
           /\ g_ret' = StageContentAfterRetry(g_in.scenario, stage.type, stage.description,
                                              g_resp[1].resp.content, m2)
    /\ g_pc' = "returned"
    /\ UNCHANGED << sim_vars, mgr_vars, or_vars, saver_vars, engine_vars, platform_vars, fixer_vars,
                    g_in, g_calls >>

\* a simulator with or without an LLM provider, nothing running
InitStage ==
    /\ InitSimulator
    /\ max_stages = 10
    /\ provider_script = [first |-> OutNone, retry |-> OutNone]

\* the scenarios come with and without a content type in their metadata;
\* the provider behind the manager may cut a response off (finish_reason
\* "length") with or without text
NextStage ==
    LET StageScenarios ==
            {[name |-> "Q3 Phish", threat_type |-> t, attr_error |-> "", content_type |-> c] :
                t \in {"phishing", "spear_phishing", "sms_phishing", "smishing",
                       "social_engineering", "vishing", "advanced_persistent_threat"},
                c \in {"", "document_lure", "pretext_scenario", "newsletter"}}
        StageOutcomes ==
            ProviderOutcomes
            \cup {[kind |-> "resp", resp |-> ProviderResponse("", "openrouter", "length")],
                  [kind |-> "resp", resp |-> ProviderResponse("", "<unset>", "length")],
                  [kind |-> "resp", resp |-> ProviderResponse("", "<unset>", "None")]}
    IN  \/ \E scen \in StageScenarios :
               \E k \in 1..Len(stages_config) : GenerateStageContent(scen, k)
        \/ \E out \in StageOutcomes : FirstCallReturns(out)
        \/ \E out \in StageOutcomes : RetryCallReturns(out)

SpecStage == InitStage /\ [][NextStage]_vars

(***************************************************************************)
(* utils/auto_content_saver.py: AutoContentSaver                           *)
(***************************************************************************)
\* the two `continue` tests of save_simulation_content
SkippedAsPlaceholder(content) ==
    \/ content = ""
    \/ Contains(content, "Content generation unavailable")
    \/ Len(content) < 100
    \/ Contains(content, "This is a simulated response")
    \/ Contains(content, "Fallback content")

\* AutoContentSaver._appears_to_be_real_ai_content; the fifth marker of
\* has_structure, the code fence of three grave accents, cannot be written in
\* a string of this module and occurs in no content of the model
AppearsToBeRealAIContent(content) ==
    LET fallback_indicators ==
            {"Content generation unavailable", "This is a simulated response",
             "Fallback content", "Unable to generate", "Error generating content",
             "[FALLBACK]", "Mock response", "placeholder response", "content not available"}
        ai_indicators ==
            {"subject:", "dear ", "from:", "to:", "hello", "thank you", "please",
             "## ", "### ", "**", "*", "scenario", "training", "simulation", "educational",
             "overview", "example", "analysis", "recommendations", "defensive", "security",
             "stage", "step", "phase", "technique", "tactic", "methodology", "approach",
             "however", "therefore", "furthermore", "additionally", "consequently",
             "meanwhile",
             "threat", "attack", "vulnerability", "risk", "compromise", "breach", "exploit"}
        content_lower == ToLower(content)
        indicator_count ==
            Cardinality({indicator \in ai_indicators : Contains(content_lower, indicator)})
        has_structure == \E marker \in {"## ", "### ", "**", "---"} : Contains(content, marker)
        has_substance == Len(content) > 1000
    IN  IF Len(content) < 150 THEN FALSE
        ELSE IF \E indicator \in fallback_indicators :
                    Contains(content_lower, ToLower(indicator))
        THEN FALSE
        ELSE indicator_count >= 3 \/ (has_structure /\ has_substance)

\* the email threat types without plain phishing
EmailThreatTypesWithoutPhishing == {"spear_phishing", "bec", "business_email_compromise"}

\* the threat types of the email branch of categorize_content
EmailThreatTypes == {"phishing", "spear_phishing", "bec", "business_email_compromise"}

\* AutoContentSaver.categorize_content: << folder, category >>
CategorizeContent(content, threat_type) ==
    LET content_lower == ToLower(content)
        threat == ToLower(threat_type)
        has(word) == Contains(content_lower, word)
    IN  IF \/ threat \in {"social_engineering", "vishing"}
           \/ has("phone") /\ (has("script") \/ has("call") \/ has("conversation"))
        THEN << "phone_scripts", "Phone Scripts" >>
        ELSE IF \/ threat \in EmailThreatTypes
                \/ has("email") /\ (has("subject:") \/ has("from:") \/ has("to:"))
        THEN << "email_templates", "Email Templates" >>
        ELSE IF \/ threat \in {"sms_phishing", "smishing"}
                \/ has("sms") \/ has("text message") \/ has("mobile")
        THEN << "scenarios", "SMS/Mobile Scenarios" >>
        ELSE IF \/ has("reconnaissance") \/ has("attack plan") \/ has("osint")
                \/ has("target profiling") \/ has("infrastructure setup")
        THEN << "scenarios", "Attack Planning" >>
        ELSE IF \E keyword \in {"threat scenario", "attack method", "exploitation", "payload",
                                "social engineering", "pretext", "lure", "campaign"} :
                    has(keyword)
        THEN << "scenarios", "Threat Scenarios" >>
        ELSE IF has("training") \/ has("awareness") \/ has("educational") \/ has("simulation")
        THEN << "training_materials", "Training Materials" >>
        ELSE IF has("analysis") \/ has("report") \/ has("assessment") \/ has("findings")
        THEN << "reports", "Analysis Reports" >>
        ELSE IF threat \in {"phishing", "spear_phishing", "bec"}
        THEN << "email_templates", "Email Templates" >>
        ELSE IF threat \in {"social_engineering", "vishing"}
        THEN << "phone_scripts", "Phone Scripts" >>
        ELSE IF threat \in {"sms_phishing", "smishing"}
        THEN << "scenarios", "SMS Scenarios" >>
        ELSE << "scenarios", "General Scenarios" >>

\* a model response of some length, with headers and a greeting
LongRealContent ==
    RealContent \o "\n\nYour mailbox password expires today. Open the portal at https://portal.example.com and sign in to keep access.\n\nThank you,\nIT Service Desk"

\* the scenario the saved simulations ran
SavedScenario == [name |-> "Q3 Phish", threat_type |-> "phishing", attr_error |-> ""]

\* stage contents a simulation may hand to save_simulation_content: what the
\* manager returns on failure and on a short answer, the canned narratives of
\* the simulator, and model output
SaverContents ==
    {"", "[Content generation unavailable - check the API key]", RealContent, LongRealContent,
     FallbackResponse("threat_simulation_reconnaissance", "Connection timed out").content,
     FallbackResponse("threat_simulation_attack_planning",
                      "Cannot connect to host openrouter.ai:443 ssl:default [Temporary failure in name resolution]").content,
     InsufficientContent("threat_simulation_execution")}
    \cup {FallbackTemplate(SavedScenario, stages_config[k].type, stages_config[k].description) :
            k \in 1..4}

\* save_simulation_content(simulation_data): every item of generated_content
\* is skipped or written by save_content_item
SaveSimulationContent(threat_type, generated_content) ==
    /\ sv_pc = "idle"
    /\ cat_ret = << >>
    /\ LET kept == {k \in 1..Len(generated_content) :
                        /\ ~SkippedAsPlaceholder(generated_content[k])
                        /\ AppearsToBeRealAIContent(generated_content[k])}
           \* the file save_content_item writes for the item at item_index
           ContentFile(content, item_index) ==
               LET cat == CategorizeContent(content, threat_type)
               IN  [folder |-> cat[1], category |-> cat[2], content |-> content,
                    item_index |-> item_index]
       IN  /\ library' = library \cup
                  {ContentFile(generated_content[k], k - 1) : k \in kept}
           /\ sv_ret' = SelectSeq([k \in 1..Len(generated_content) |-> k - 1],
                                  LAMBDA x : (x + 1) \in kept)
    /\ sv_pc' = "returned"
    /\ UNCHANGED << sim_vars, mgr_vars, or_vars, stage_vars, engine_vars, platform_vars, fixer_vars,
                    cat_in, cat_ret >>

\* categorize_content(content, threat_type) is called on its own
Categorize(content, threat_type) ==
    /\ sv_pc = "idle"
    /\ cat_ret = << >>
    /\ cat_in' = [content |-> content, threat_type |-> threat_type]
    /\ cat_ret' = CategorizeContent(content, threat_type)
    /\ UNCHANGED << sim_vars, mgr_vars, or_vars, stage_vars, engine_vars, platform_vars, fixer_vars,
                    library, sv_pc, sv_ret >>

\* a saver right after __init__; each behaviour is one call on it. The
\* generated_content of a saved simulation is nothing, one content, or a
\* model response followed by one content; a categorized content is put
\* together from pieces of text
NextSaver ==
    LET GeneratedContents ==
            {<< >>}
            \cup {<< c >> : c \in SaverContents}
            \cup {<< LongRealContent, c >> : c \in SaverContents}
        Fragments ==
            << "Subject: Password expiry notice\n",
               "From: IT Support <it-support@example.com>\n",
               "Please call the help desk to confirm.\n",
               "Our phone line is open until 5 pm.\n",
               "Sent from my mobile\n",
               "Reply to this email today.\n" >>
        Piece(chosen, k) == IF k \in chosen THEN Fragments[k] ELSE ""
        CategorizedContents ==
            {Piece(chosen, 1) \o Piece(chosen, 2) \o Piece(chosen, 3)
                 \o Piece(chosen, 4) \o Piece(chosen, 5) \o Piece(chosen, 6) :
                chosen \in SUBSET (1..6)}
    IN  \/ \E t \in {"phishing", "social_engineering"} :
               \E l \in GeneratedContents : SaveSimulationContent(t, l)
        \/ \E c \in CategorizedContents :
               \E t \in {"phishing", "Phishing", "spear_phishing", "social_engineering",
                         "sms_phishing", "malware"} :
                   Categorize(c, t)

SpecSaver == InitAtRest /\ [][NextSaver]_vars

(***************************************************************************)
(* deployment/__init__.py: ThreatDeploymentEngine                          *)
(***************************************************************************)
\* the values of the DeploymentChannel enumeration
DeploymentChannel == {"email", "sms", "voice", "social_media", "web", "physical"}

\* the values of the DeploymentStatus enumeration
DeploymentStatus == {"pending", "deploying", "active", "completed", "failed", "cancelled"}

\* DeploymentResult(...): the model validates channel and status against
\* their enumerations and raises a ValidationError on any other value
NewDeploymentResult(channel, status, attempted, successful, failed, tracking_ids) ==
    IF channel \in DeploymentChannel /\ status \in DeploymentStatus
    THEN [kind |-> "result", channel |-> channel, status |-> status,
          targets_attempted |-> attempted, targets_successful |-> successful,
          targets_failed |-> failed, tracking_ids |-> tracking_ids]
    ELSE [kind |-> "raise", error |-> "ValidationError"]

\* CampaignMetrics(campaign_id=campaign_id); events is the number of records
\* in metrics_storage[campaign_id], the event log the collector keeps beside
\* the metrics (absent until the first recorded event)
NewCampaignMetrics(campaign_id) ==
    [campaign_id |-> campaign_id, emails_sent |-> 0, emails_delivered |-> 0,
     emails_opened |-> 0, links_clicked |-> 0, credentials_submitted |-> 0,
     sms_sent |-> 0, security_escalations |-> 0, events |-> 0]

\* record_event crediting an event without campaign_id to the latest campaign
RecordEventDefaulting(campaigns, event_type, campaign_id) ==
    LET id == IF campaign_id = 0 THEN Len(campaigns) ELSE campaign_id
    IN  IF id \notin DOMAIN campaigns
        THEN campaigns
        ELSE [campaigns EXCEPT ![id].events = @ + 1,
                               ![id].emails_sent = IF event_type = "email_sent" THEN @ + 1 ELSE @,
                               ![id].sms_sent = IF event_type = "sms_sent" THEN @ + 1 ELSE @]

\* ThreatMetricsCollector.record_event(event_type, event_data) on the campaigns
\* map; campaign_id is event_data.get("campaign_id"), 0 when it is None
RecordEvent(campaigns, event_type, campaign_id) ==
    IF campaign_id = 0 \/ campaign_id \notin DOMAIN campaigns
    THEN campaigns
    ELSE LET counted ==
                 IF event_type = "email_sent"
                 THEN [campaigns EXCEPT ![campaign_id].emails_sent = @ + 1]
                 ELSE IF event_type = "email_delivered"
                 THEN [campaigns EXCEPT ![campaign_id].emails_delivered = @ + 1]
                 ELSE IF event_type = "email_opened"
                 THEN [campaigns EXCEPT ![campaign_id].emails_opened = @ + 1]
                 ELSE IF event_type = "link_clicked"
                 THEN [campaigns EXCEPT ![campaign_id].links_clicked = @ + 1]
                 ELSE IF event_type = "credentials_submitted"
                 THEN [campaigns EXCEPT ![campaign_id].credentials_submitted = @ + 1]
                 ELSE IF event_type = "sms_sent"
                 THEN [campaigns EXCEPT ![campaign_id].sms_sent = @ + 1]
                 ELSE IF event_type = "security_escalation"
                 THEN [campaigns EXCEPT ![campaign_id].security_escalations = @ + 1]
                 ELSE campaigns
         IN  [counted EXCEPT ![campaign_id].events = @ + 1]

RECURSIVE RecordEvents(_, _, _)
\* the metrics_callback calls of one service.deploy: one per target served,
\* with an event_data of deployment_id, target_id, tracking_id and timestamp
RecordEvents(campaigns, event_type, n) ==
    IF n = 0 THEN campaigns
    ELSE RecordEvents(RecordEvent(campaigns, event_type, 0), event_type, n - 1)

\* DeploymentConfig.get_targets_for_channel
GetTargetsForChannel(config, channel) ==
    SelectSeq(config.targets, LAMBDA target : channel \in target.channels)

\* the channels ThreatDeploymentEngine.__init__ registers a service for
deployment_services == {"email", "sms"}

\* EmailDeploymentService.deploy and SMSDeploymentService.deploy.  A target
\* whose personalization raises (a name that is no string) is counted failed.
\* A served target gets its tracking id (here its position in the list) and is
\* counted successful before metrics_callback is awaited; metrics_callback is
\* "None", "record_event" (the collector's, which returns) or "raises", and an
\* exception out of it lands in the same except clause and counts the target
\* failed as well.
ServiceDeploy(channel, targets, campaigns, metrics_callback) ==
    LET served == SelectSeq([k \in 1..Len(targets) |-> k], LAMBDA k : targets[k].name_ok)
        failed == (Len(targets) - Len(served))
                  + (IF metrics_callback = "raises" THEN Len(served) ELSE 0)
    IN  [result |-> NewDeploymentResult(
                        channel,
                        IF channel = "email" /\ failed # 0 THEN "active" ELSE "completed",
                        Len(targets), Len(served), failed, served),
         campaigns |-> IF metrics_callback = "record_event"
                       THEN RecordEvents(campaigns,
                                         IF channel = "email" THEN "email_sent" ELSE "sms_sent",
                                         Len(served))
                       ELSE campaigns]

\* the validation of deploy_threat_campaign demanding both flags
RejectedUnlessBoth(config) == ~config.compliance_approved \/ ~config.test_mode

\* the validation of deploy_threat_campaign
Rejected(config) == ~config.compliance_approved /\ ~config.test_mode

RECURSIVE DeployChannels(_, _, _)
\* the channel loop of deploy_threat_campaign from the k-th channel on;
\* acc holds deployment_results, the deploy calls made and the campaigns map
DeployChannels(config, k, acc) ==
    IF k > Len(config.channels) THEN acc
    ELSE LET channel == config.channels[k]
             channel_targets == GetTargetsForChannel(config, channel)
         IN  IF channel \notin deployment_services \/ Len(channel_targets) = 0
             THEN DeployChannels(config, k + 1, acc)
             ELSE LET done == ServiceDeploy(channel, channel_targets, acc.campaigns, "record_event")
                  IN  DeployChannels(config, k + 1,
                          [results |-> Append(acc.results, done.result),
                           calls |-> Append(acc.calls, channel),
                           campaigns |-> done.campaigns])

\* deploy_threat_campaign(generated_content, deployment_config); the services
\* are mocks without a suspension point, so the call runs in one piece
DeployThreatCampaign(config) ==
    /\ d_config' = config
    /\ IF Rejected(config)
       THEN /\ d_pc' = "raised"
            /\ d_ret' = [kind |-> "raise",
                         error |-> "ValueError: Deployment must be compliance approved for production use"]
            /\ d_calls' = << >>
            /\ UNCHANGED active_campaigns
       ELSE /\ Len(active_campaigns) < MaxCampaigns
            /\ LET done == DeployChannels(config, 1,
                               [results |-> << >>, calls |-> << >>,
                                campaigns |-> active_campaigns])
                   campaign_id == Len(done.campaigns) + 1
               IN  /\ active_campaigns' = Append(done.campaigns, NewCampaignMetrics(campaign_id))
                   /\ d_calls' = done.calls
                   /\ d_ret' = [kind |-> "ok", campaign_id |-> campaign_id,
                                results |-> done.results]
            /\ d_pc' = "returned"
    /\ UNCHANGED << sim_vars, mgr_vars, or_vars, stage_vars, saver_vars, platform_vars, fixer_vars >>

\* target lists of up to two targets: who a target is reached through and
\* whether its name is a string
DeployTargetLists ==
    LET DeployTargets ==
            {[channels |-> {"email"}, name_ok |-> TRUE],
             [channels |-> {"email", "sms"}, name_ok |-> TRUE],
             [channels |-> {"sms"}, name_ok |-> FALSE],
             [channels |-> {"email"}, name_ok |-> FALSE]}
    IN  {<< >>} \cup {<< t >> : t \in DeployTargets}
                \cup {<< t, u >> : t \in DeployTargets, u \in DeployTargets}

\* the configs differ in their flags, their channels and their targets
NextDeploy ==
    LET DeployChannelLists ==
            {<< >>, << "email" >>, << "sms" >>, << "email", "sms" >>, << "voice", "email" >>}
    IN  \E a \in BOOLEAN, t \in BOOLEAN, c \in DeployChannelLists, g \in DeployTargetLists :
            DeployThreatCampaign([compliance_approved |-> a, test_mode |-> t,
                                  channels |-> c, targets |-> g])

SpecDeploy == InitAtRest /\ [][NextDeploy]_vars

\* service.deploy(content, targets, metrics_callback) called on the e-mail or
\* the SMS service of the engine; d_ret holds the call and the DeploymentResult
\* it returned.  The services are mocks without a suspension point.
ServiceDeployCall(channel, targets, metrics_callback) ==
    /\ LET done == ServiceDeploy(channel, targets, active_campaigns, metrics_callback)
       IN  /\ d_ret' = [kind |-> "deployed", targets |-> targets,
                        metrics_callback |-> metrics_callback, result |-> done.result]
           /\ active_campaigns' = done.campaigns
    /\ d_calls' = << channel >>
    /\ d_pc' = "deployed"
    /\ UNCHANGED << sim_vars, mgr_vars, or_vars, stage_vars, saver_vars, platform_vars, fixer_vars,
                    d_config >>

NextService ==
    \E channel \in deployment_services, g \in DeployTargetLists,
       metrics_callback \in {"None", "record_event", "raises"} :
        ServiceDeployCall(channel, g, metrics_callback)

SpecService == InitAtRest /\ [][NextService]_vars

(***************************************************************************)
(* deployment/integrations.py: Microsoft365Integration, SlackIntegration   *)
(***************************************************************************)
\* the body of one turn of the target loop: what it adds to
\* successful_deployments and failed_deployments
TargetCounts(platform, out) ==
    IF out.kind = "error" THEN [successful |-> 0, failed |-> 1]
    ELSE IF platform = "microsoft365"
    THEN IF out.status = 202 THEN [successful |-> 1, failed |-> 0]
         \* failed_deployments += 1, then response.text(); when that raises
         \* the except clause counts the target once more
         ELSE IF out.readable THEN [successful |-> 0, failed |-> 1]
         ELSE [successful |-> 0, failed |-> 2]
    ELSE IF out.status = 200
    THEN IF ~out.readable THEN [successful |-> 0, failed |-> 1]
         ELSE IF out.ok THEN [successful |-> 1, failed |-> 0]
         ELSE [successful |-> 0, failed |-> 1]
    ELSE [successful |-> 0, failed |-> 1]

\* return DeploymentResult(...) at the end of deploy_content, with the
\* DeploymentChannel of the platform and the status it works out
PlatformResult(platform, attempted, successful, failed) ==
    NewDeploymentResult(IF platform = "microsoft365" THEN "email" ELSE "social_media",
                        IF failed = 0 THEN "completed" ELSE "partial",
                        attempted, successful, failed, [k \in 1..successful |-> k])

\* deploy_content(content, targets) up to the first target's request;
\* Microsoft365Integration authenticates first when it holds no token and
\* goes on whatever authenticate() returns
DeployContent(platform, n, auth_ok) ==
    /\ p_pc \in {"idle", "returned", "raised"}
    /\ p_platform' = platform
    /\ p_targets' = n
    /\ p_log' = << >>
    /\ successful_deployments' = 0
    /\ failed_deployments' = 0
    /\ access_token' = IF platform = "microsoft365" /\ ~access_token
                       THEN auth_ok ELSE access_token
    /\ IF n = 0
       THEN LET built == PlatformResult(platform, 0, 0, 0)
            IN  /\ p_ret' = built
                /\ p_pc' = IF built.kind = "raise" THEN "raised" ELSE "returned"
       ELSE /\ p_ret' = [kind |-> "unset"]
            /\ p_pc' = "posting"
    /\ UNCHANGED << sim_vars, mgr_vars, or_vars, stage_vars, saver_vars, engine_vars, fixer_vars >>

\* one target's session.post comes back; after the last target the call
\* builds its DeploymentResult
PostDone(out) ==
    /\ p_pc = "posting"
    /\ LET counts == TargetCounts(p_platform, out)
           successful == successful_deployments + counts.successful
           failed == failed_deployments + counts.failed
       IN  /\ p_log' = Append(p_log, out)
           /\ successful_deployments' = successful
           /\ failed_deployments' = failed
           /\ IF Len(p_log) + 1 < p_targets
              THEN UNCHANGED << p_pc, p_ret >>
              ELSE LET built == PlatformResult(p_platform, p_targets, successful, failed)
                   IN  /\ p_ret' = built
                       /\ p_pc' = IF built.kind = "raise" THEN "raised" ELSE "returned"
    /\ UNCHANGED << access_token, p_platform, p_targets >>
    /\ UNCHANGED << sim_vars, mgr_vars, or_vars, stage_vars, saver_vars, engine_vars, fixer_vars >>

\* what one target's request can meet: the post raises, or a response comes
\* with a status, Slack's "ok" field, and a body that can be read or not
NextPlatform ==
    LET PlatformOutcomes ==
            {[kind |-> "error"]} \cup
            {[kind |-> "response", status |-> st, ok |-> ok, readable |-> rd] :
                st \in {200, 202, 400}, ok \in BOOLEAN, rd \in BOOLEAN}
    IN  \/ \E platform \in {"microsoft365", "slack"}, n \in 0..MaxTargets,
                 auth_ok \in BOOLEAN :
               DeployContent(platform, n, auth_ok)
        \/ \E out \in PlatformOutcomes : PostDone(out)

SpecPlatform == InitAtRest /\ [][NextPlatform]_vars

(***************************************************************************)
(* YAML as yaml.safe_load reads it and yaml.dump writes it                 *)
(***************************************************************************)
\* A loaded value is a record tagged with its Python type: a str
\* [t |-> "str", s |-> ..], an int [t |-> "int", n |-> ..], a bool
\* [t |-> "bool", b |-> ..], None [t |-> "none"], a datetime
\* [t |-> "datetime", s |-> ..], the empty list [t |-> "list"], a dict
\* [t |-> "dict", m |-> ..]. A node of a file is a scalar as it is written
\* [y |-> "scalar", text |-> ..], the empty flow sequence [y |-> "sequence"]
\* or a block mapping [y |-> "mapping", m |-> ..].
DecimalDigits == "0123456789"

IsDigit(c) == \E d \in 1..10 : CharAt(DecimalDigits, d) = c

\* the string is a run of decimal digits
IsDigits(s) == Len(s) > 0 /\ \A p \in 1..Len(s) : IsDigit(CharAt(s, p))

RECURSIVE ParseDigits(_)
\* int(s) on a run of decimal digits
ParseDigits(s) ==
    IF Len(s) = 0 THEN 0
    ELSE ParseDigits(SubSeq(s, 1, Len(s) - 1)) * 10
             + (CHOOSE d \in 0..9 : CharAt(DecimalDigits, d + 1) = CharAt(s, Len(s)))

RECURSIVE IntToStr(_)
\* str(n) for n >= 0
IntToStr(n) ==
    IF n < 10 THEN CharAt(DecimalDigits, n + 1)
    ELSE IntToStr(n \div 10) \o CharAt(DecimalDigits, (n % 10) + 1)

\* a scalar in single quotes
IsQuoted(text) ==
    Len(text) >= 2 /\ CharAt(text, 1) = "'" /\ CharAt(text, Len(text)) = "'"

\* the value safe_load gives a scalar: a quoted scalar is a string, a plain
\* one goes through the implicit resolvers of YAML 1.1 (no scalar here has a
\* leading zero, a sign or a decimal point); a scalar that starts like an ISO
\* date is read as a timestamp
LoadScalar(text) ==
    LET YamlTrue == {"yes", "Yes", "YES", "true", "True", "TRUE", "on", "On", "ON"}
        YamlFalse == {"no", "No", "NO", "false", "False", "FALSE", "off", "Off", "OFF"}
        YamlNull == {"", "~", "null", "Null", "NULL"}
        IsTimestamp ==
            /\ Len(text) >= 10
            /\ IsDigits(SubSeq(text, 1, 4)) /\ CharAt(text, 5) = "-"
            /\ IsDigits(SubSeq(text, 6, 7)) /\ CharAt(text, 8) = "-"
            /\ IsDigits(SubSeq(text, 9, 10))
    IN  IF IsQuoted(text) THEN [t |-> "str", s |-> SubSeq(text, 2, Len(text) - 1)]
        ELSE IF text \in YamlNull THEN [t |-> "none"]
        ELSE IF text \in YamlTrue THEN [t |-> "bool", b |-> TRUE]
        ELSE IF text \in YamlFalse THEN [t |-> "bool", b |-> FALSE]
        ELSE IF IsDigits(text) THEN [t |-> "int", n |-> ParseDigits(text)]
        ELSE IF IsTimestamp THEN [t |-> "datetime", s |-> text]
        ELSE [t |-> "str", s |-> text]

\* the scalar yaml.dump writes for a value: a string that a resolver would
\* read as something else is put in quotes
DumpScalar(v) ==
    IF v.t = "str"
    THEN IF LoadScalar(v.s).t # "str" \/ IsQuoted(v.s) THEN "'" \o v.s \o "'" ELSE v.s
    ELSE IF v.t = "int" THEN IntToStr(v.n)
    ELSE IF v.t = "bool" THEN (IF v.b THEN "true" ELSE "false")
    ELSE IF v.t = "none" THEN "null"
    ELSE v.s

\* yaml.safe_load(content): the comment lines are dropped
SafeLoad(content) ==
    LET LoadLeaf(node) ==
            IF node.y = "scalar" THEN LoadScalar(node.text) ELSE [t |-> "list"]
        LoadNode(node) ==
            IF node.y = "mapping"
            THEN [t |-> "dict", m |-> [key \in DOMAIN node.m |-> LoadLeaf(node.m[key])]]
            ELSE LoadLeaf(node)
    IN  [key \in DOMAIN content.doc |-> LoadNode(content.doc[key])]

\* yaml.dump(template_data, f, default_flow_style=False, sort_keys=False)
YamlDump(template_data) ==
    LET DumpLeaf(v) ==
            IF v.t = "list" THEN [y |-> "sequence"]
            ELSE [y |-> "scalar", text |-> DumpScalar(v)]
        DumpNode(v) ==
            IF v.t = "dict"
            THEN [y |-> "mapping", m |-> [key \in DOMAIN v.m |-> DumpLeaf(v.m[key])]]
            ELSE DumpLeaf(v)
    IN  [key \in DOMAIN template_data |-> DumpNode(template_data[key])]

\* d[key] = v
Put(d, key, v) == [x \in DOMAIN d \cup {key} |-> IF x = key THEN v ELSE d[x]]

RECURSIVE Join(_, _)
\* sep.join(parts)
Join(parts, sep) ==
    IF Len(parts) = 0 THEN ""
    ELSE IF Len(parts) = 1 THEN parts[1]
    ELSE parts[1] \o sep \o Join(Tail(parts), sep)

(***************************************************************************)
(* fix_templates.py: TemplateFixer                                         *)
(***************************************************************************)
\* the mapping in which a corrected legacy threat_type is legacy again
THREAT_TYPE_MAPPINGS_Chained ==
    [hybrid_attack |-> "advanced_persistent_threat",
     multi_vector |-> "advanced_persistent_threat",
     healthcare_targeted_attack |-> "spear_phishing",
     multi_channel |-> "multi_vector",
     supply_chain |-> "advanced_persistent_threat"]

THREAT_TYPE_MAPPINGS ==
    [hybrid_attack |-> "advanced_persistent_threat",
     multi_vector |-> "advanced_persistent_threat",
     healthcare_targeted_attack |-> "spear_phishing",
     multi_channel |-> "phishing",
     supply_chain |-> "advanced_persistent_threat"]

DELIVERY_VECTOR_MAPPINGS ==
    [multi_channel |-> "email", multi_vector |-> "email", mixed |-> "email"]

\* The state of one run over a template is [data, fixes, raised]:
\* template_data, the fixes recorded so far, and whether a statement has
\* raised TypeError, which ends the run.
\* one more fix recorded on the changed template_data
Fixed(fx, template_data, fix) ==
    [data |-> template_data, fixes |-> Append(fx.fixes, fix), raised |-> FALSE]

\* section[key] = v on the mapping template_data[section], with its fix
PutIn(fx, section, key, v, fix) ==
    Fixed(fx, Put(fx.data, section,
                  [t |-> "dict", m |-> Put(fx.data[section].m, key, v)]), fix)

\* `if key in template_data` with `if old in mappings`: the value is replaced
\* by mappings[old]; the arrow of the fix text is written "->" here
FixLegacy(fx, key, mappings) ==
    IF /\ key \in DOMAIN fx.data
       /\ fx.data[key].t = "str"
       /\ fx.data[key].s \in DOMAIN mappings
    THEN LET legacy == fx.data[key].s
             mapped == mappings[legacy]
         IN  Fixed(fx, Put(fx.data, key, [t |-> "str", s |-> mapped]),
                   key \o ": " \o legacy \o " -> " \o mapped)
    ELSE fx

\* "Fix difficulty_level": int(difficulty) of a string, 5 when it raises
FixDifficultyLevel(fx) ==
    IF "difficulty_level" \in DOMAIN fx.data /\ fx.data["difficulty_level"].t = "str"
    THEN IF IsDigits(fx.data["difficulty_level"].s)
         THEN Fixed(fx, Put(fx.data, "difficulty_level",
                            [t |-> "int", n |-> ParseDigits(fx.data["difficulty_level"].s)]),
                    "difficulty_level: converted string to integer")
         ELSE Fixed(fx, Put(fx.data, "difficulty_level", [t |-> "int", n |-> 5]),
                    "difficulty_level: set default value of 5")
    ELSE fx

\* "Fix estimated_duration": re.findall(r'\d+', duration)[0] of a string,
\* when it holds a number
FixEstimatedDuration(fx) ==
    IF /\ "estimated_duration" \in DOMAIN fx.data
       /\ fx.data["estimated_duration"].t = "str"
       /\ \E p \in 1..Len(fx.data["estimated_duration"].s) :
              IsDigit(CharAt(fx.data["estimated_duration"].s, p))
    THEN LET duration == fx.data["estimated_duration"].s
             at == {p \in 1..Len(duration) : IsDigit(CharAt(duration, p))}
             first == CHOOSE p \in at : \A q \in at : p <= q
             last == CHOOSE p \in first..Len(duration) :
                         /\ \A q \in first..p : q \in at
                         /\ (p + 1) \notin at
         IN  Fixed(fx, Put(fx.data, "estimated_duration",
                           [t |-> "int", n |-> ParseDigits(SubSeq(duration, first, last))]),
                   "estimated_duration: extracted number from string")
    ELSE fx

\* "Fix simulation_parameters": the loop over the integer parameters with
\* their defaults, then the loop over the boolean ones; `param in sim_params`
\* raises when the section is empty in the file
FixSimulationParameters(fx) ==
    LET defaults == [max_iterations |-> 3, max_duration_minutes |-> 60, urgency_level |-> 5]
        IntParam(at, param) ==
            LET sim_params == at.data["simulation_parameters"].m
            IN  IF param \in DOMAIN sim_params /\ sim_params[param].t = "str"
                THEN IF IsDigits(sim_params[param].s)
                     THEN PutIn(at, "simulation_parameters", param,
                                [t |-> "int", n |-> ParseDigits(sim_params[param].s)],
                                "simulation_parameters." \o param \o ": converted to integer")
                     ELSE PutIn(at, "simulation_parameters", param,
                                [t |-> "int", n |-> defaults[param]],
                                "simulation_parameters." \o param \o ": set default value")
                ELSE at
        BoolParam(at, param) ==
            LET sim_params == at.data["simulation_parameters"].m
            IN  IF param \in DOMAIN sim_params /\ sim_params[param].t = "str"
                THEN PutIn(at, "simulation_parameters", param,
                           [t |-> "bool",
                            b |-> ToLower(sim_params[param].s) \in {"true", "yes", "1", "on"}],
                           "simulation_parameters." \o param \o ": converted to boolean")
                ELSE at
    IN  IF "simulation_parameters" \notin DOMAIN fx.data THEN fx
        ELSE IF fx.data["simulation_parameters"].t # "dict" THEN [fx EXCEPT !.raised = TRUE]
        ELSE BoolParam(BoolParam(BoolParam(BoolParam(BoolParam(
                 IntParam(IntParam(IntParam(fx,
                     "max_iterations"), "max_duration_minutes"), "urgency_level"),
                 "escalation_enabled"), "response_adaptation"), "compliance_mode"),
                 "content_filtering"), "audit_logging")

unsupported_fields ==
    << "success_metrics", "compliance_controls", "post_simulation_analysis",
       "escalation_triggers", "adaptation_rules", "variable_definitions",
       "template_variables", "dynamic_content" >>

RECURSIVE RemoveFields(_, _, _, _)
\* the loop that deletes with `del template_data[field]` the fields named in
\* `fields`, from the k-th on
RemoveFields(fx, fields, k, said) ==
    IF k > Len(fields) THEN fx
    ELSE IF fields[k] \in DOMAIN fx.data
    THEN RemoveFields(Fixed(fx, [x \in DOMAIN fx.data \ {fields[k]} |-> fx.data[x]],
                            said \o fields[k]),
                      fields, k + 1, said)
    ELSE RemoveFields(fx, fields, k + 1, said)

RECURSIVE TitleFrom(_, _)
\* s.replace('_', ' ').title() from the k-th character on
TitleFrom(s, k) ==
    LET IsLetter(c) ==
            \E p \in 1..26 : CharAt(UpperAlphabet, p) = c \/ CharAt(LowerAlphabet, p) = c
    IN  IF k > Len(s) THEN ""
        ELSE (IF CharAt(s, k) = "_" THEN " "
              ELSE IF k > 1 /\ IsLetter(CharAt(s, k - 1)) THEN LowerChar(CharAt(s, k))
              ELSE UpperChar(CharAt(s, k))) \o TitleFrom(s, k + 1)

\* Path.stem: the name without its last suffix
Stem(name) ==
    LET dots == {p \in 1..Len(name) : CharAt(name, p) = "."}
        last == CHOOSE p \in dots : \A q \in dots : q <= p
    IN  SubSeq(name, 1, last - 1)

\* "Ensure required metadata fields exist" and "Add timestamps if missing":
\* the loop over required_metadata in the order of its keys, then created_at
\* and updated_at; `key not in metadata` raises when the section is empty in
\* the file
FixMetadata(fx, template_file, timestamp) ==
    LET required_metadata ==
            [name |-> [t |-> "str", s |-> TitleFrom(Stem(template_file), 1)],
             description |-> [t |-> "str", s |-> "Threat scenario template"],
             version |-> [t |-> "str", s |-> "1.0.0"],
             author |-> [t |-> "str", s |-> "ThreatGPT"],
             tags |-> [t |-> "list"],
             references |-> [t |-> "list"]]
        Required(at, key) ==
            IF key \in DOMAIN at.data["metadata"].m THEN at
            ELSE PutIn(at, "metadata", key, required_metadata[key],
                       "added missing metadata." \o key)
        Stamp(at, key) ==
            IF key \in DOMAIN at.data["metadata"].m THEN at
            ELSE PutIn(at, "metadata", key, [t |-> "str", s |-> timestamp],
                       "added metadata." \o key)
        present == IF "metadata" \in DOMAIN fx.data THEN fx
                   ELSE Fixed(fx, Put(fx.data, "metadata", [t |-> "dict", m |-> EmptyDict]),
                              "added missing metadata section")
    IN  IF present.data["metadata"].t # "dict" THEN [present EXCEPT !.raised = TRUE]
        ELSE Stamp(Stamp(
                 Required(Required(Required(Required(Required(Required(present,
                     "name"), "description"), "version"), "author"), "tags"), "references"),
                 "created_at"), "updated_at")

\* "Ensure target_profile has required structure": the four checks;
\* `"seniority" in target` raises when the section is empty in the file
FixTargetProfile(fx) ==
    LET valid_industries ==
            {"technology", "finance", "healthcare", "government", "education",
             "retail", "manufacturing", "energy", "telecommunications", "other"}
        Field(at, field, valid, fallback) ==
            LET target == at.data["target_profile"].m
            IN  IF /\ field \in DOMAIN target
                   /\ ~(target[field].t = "str" /\ target[field].s \in valid)
                THEN PutIn(at, "target_profile", field, [t |-> "str", s |-> fallback],
                           "target_profile." \o field \o ": set to valid value")
                ELSE at
    IN  IF "target_profile" \notin DOMAIN fx.data THEN fx
        ELSE IF fx.data["target_profile"].t # "dict" THEN [fx EXCEPT !.raised = TRUE]
        ELSE Field(Field(Field(Field(fx,
                 "seniority", {"junior", "mid", "senior", "executive"}, "mid"),
                 "technical_level", {"low", "moderate", "high", "expert"}, "moderate"),
                 "industry", valid_industries, "technology"),
                 "company_size", {"startup", "small", "medium", "large", "enterprise"}, "medium")

\* the statements of fix_template between safe_load and "Only save if fixes
\* were applied": nothing runs once a statement has raised
FixTemplateData(template_data, template_file, timestamp) ==
    LET top == FixEstimatedDuration(FixDifficultyLevel(
                   FixLegacy(FixLegacy([data |-> template_data, fixes |-> << >>,
                                        raised |-> FALSE],
                                       "threat_type", THREAT_TYPE_MAPPINGS),
                             "delivery_vector", DELIVERY_VECTOR_MAPPINGS)))
        sim == FixSimulationParameters(top)
        meta == IF sim.raised THEN sim
                ELSE FixMetadata(RemoveFields(sim, unsupported_fields, 1,
                                              "removed unsupported field: "),
                                 template_file, timestamp)
    IN  IF meta.raised THEN meta ELSE FixTargetProfile(meta)

\* datetime.utcnow().isoformat() at the clock reading
IsoFormat(secs) == "2025-01-01T00:00:0" \o IntToStr(secs)

\* shutil.copy2 that copies nothing
Copy2Nowhere(copies, path, content) == copies

\* shutil.copy2(template_file, backup_path) on the backup copies
Copy2(copies, path, content) == Put(copies, path, content)

\* the first calls of a behaviour are looked at
CallsLeft ==
    LET RECURSIVE CallsMade(_)
        CallsMade(fs) ==
            IF fs = {} THEN 0
            ELSE LET one == CHOOSE file \in fs : TRUE
                 IN  Len(fix_log[one]) + CallsMade(fs \ {one})
    IN  CallsMade(TemplateFiles) < MaxFixCalls

\* TemplateFixer.fix_template(template_file) up to its return or, when there
\* are fixes, to the backup copy at template_file.with_suffix(...)
FixTemplate(template_file) ==
    /\ f_pc = "idle"
    /\ CallsLeft
    /\ fix_log' = [fix_log EXCEPT ![template_file] = Append(@, "fixer")]
    /\ LET fx == FixTemplateData(SafeLoad(files[template_file]), template_file,
                                 IsoFormat(epoch) \o "Z")
       IN  IF fx.raised
           THEN /\ f_ret' = [kind |-> "raise", who |-> "fixer", file |-> template_file,
                             error |-> "TypeError"]
                /\ UNCHANGED << backups, f_pc, f_pending >>
           ELSE IF fx.fixes = << >>
           THEN /\ f_ret' = [kind |-> "fixes", who |-> "fixer", file |-> template_file,
                             fixes |-> << >>]
                /\ UNCHANGED << backups, f_pc, f_pending >>
           ELSE /\ backups' = Copy2(backups,
                                    Stem(template_file) \o ".backup."
                                        \o IntToStr(epoch) \o ".yaml",
                                    files[template_file])
                /\ f_pc' = "backed_up"
                /\ f_pending' = [who |-> "fixer", file |-> template_file,
                                 data |-> fx.data, fixes |-> fx.fixes]
                /\ f_ret' = [kind |-> "unset"]
    /\ UNCHANGED << files, epoch >>
    /\ UNCHANGED << sim_vars, mgr_vars, or_vars, stage_vars, saver_vars, engine_vars, platform_vars >>

(***************************************************************************)
(* core/template_manager_pro.py: TemplateManager.fix_template_issues       *)
(***************************************************************************)
\* the mappings of _fix_threat_type
manager_threat_mappings ==
    [hybrid_attack |-> "advanced_persistent_threat",
     multi_vector |-> "advanced_persistent_threat",
     healthcare_targeted_attack |-> "spear_phishing"]

\* the mappings of _fix_delivery_vector
manager_delivery_mappings == [multi_channel |-> "email", multi_vector |-> "email"]

\* the statements of fix_template_issues between safe_load and
\* `if fixes_applied`: "Fix threat_type issues", "Fix delivery_vector
\* issues", "Fix simulation parameters" for its two integer parameters
\* (sim_params.get raises when the section is empty in the file), "Remove
\* extra fields that cause validation errors"
FixTemplateIssuesData(template_data) ==
    LET extra_fields ==
            << "success_metrics", "compliance_controls", "post_simulation_analysis" >>
        IntParam(at, param, fallback) ==
            LET sim_params == at.data["simulation_parameters"].m
            IN  IF param \in DOMAIN sim_params /\ sim_params[param].t = "str"
                THEN IF IsDigits(sim_params[param].s)
                     THEN PutIn(at, "simulation_parameters", param,
                                [t |-> "int", n |-> ParseDigits(sim_params[param].s)],
                                param \o ": converted to int")
                     ELSE PutIn(at, "simulation_parameters", param,
                                [t |-> "int", n |-> fallback],
                                param \o ": defaulted to " \o IntToStr(fallback))
                ELSE at
        mapped == FixLegacy(FixLegacy([data |-> template_data, fixes |-> << >>,
                                       raised |-> FALSE],
                                      "threat_type", manager_threat_mappings),
                            "delivery_vector", manager_delivery_mappings)
        sim == IF "simulation_parameters" \notin DOMAIN mapped.data THEN mapped
               ELSE IF mapped.data["simulation_parameters"].t # "dict"
               THEN [mapped EXCEPT !.raised = TRUE]
               ELSE IntParam(IntParam(mapped, "max_iterations", 3),
                             "max_duration_minutes", 60)
    IN  IF sim.raised THEN sim
        ELSE RemoveFields(sim, extra_fields, 1, "Removed extra field: ")

\* TemplateManager.fix_template_issues(template_file) up to its return or,
\* when there are fixes, to the backup copy; an exception makes it return
\* False
FixTemplateIssues(template_file) ==
    /\ f_pc = "idle"
    /\ CallsLeft
    /\ fix_log' = [fix_log EXCEPT ![template_file] = Append(@, "manager")]
    /\ LET fx == FixTemplateIssuesData(SafeLoad(files[template_file]))
       IN  IF fx.raised \/ fx.fixes = << >>
           THEN /\ f_ret' = [kind |-> "bool", who |-> "manager", file |-> template_file,
                             value |-> FALSE]
                /\ UNCHANGED << backups, f_pc, f_pending >>
           ELSE /\ backups' = Copy2(backups,
                                    Stem(template_file) \o ".backup_"
                                        \o IntToStr(epoch) \o ".yaml",
                                    files[template_file])
                /\ f_pc' = "backed_up"
                /\ f_pending' = [who |-> "manager", file |-> template_file,
                                 data |-> fx.data, fixes |-> fx.fixes]
                /\ f_ret' = [kind |-> "unset"]
    /\ UNCHANGED << files, epoch >>
    /\ UNCHANGED << sim_vars, mgr_vars, or_vars, stage_vars, saver_vars, engine_vars, platform_vars >>

\* "Save fixed version" of either fixer, and its return: the header comment
\* lines each of them writes, then yaml.dump
SaveFixed ==
    /\ f_pc = "backed_up"
    /\ files' = [files EXCEPT ![f_pending.file] =
                    [header |->
                         IF f_pending.who = "fixer"
                         THEN << "# ThreatGPT Threat Scenario Template",
                                 "# Auto-fixed on " \o IsoFormat(epoch) \o "Z",
                                 "# Fixes applied: " \o Join(f_pending.fixes, ", "), "" >>
                         ELSE << "# ThreatGPT Threat Scenario Template (Auto-fixed)",
                                 "# Fixes applied: " \o Join(f_pending.fixes, ", "), "" >>,
                     doc |-> YamlDump(f_pending.data)]]
    /\ f_ret' = IF f_pending.who = "fixer"
                THEN [kind |-> "fixes", who |-> "fixer", file |-> f_pending.file,
                      fixes |-> f_pending.fixes]
                ELSE [kind |-> "bool", who |-> "manager", file |-> f_pending.file,
                      value |-> TRUE]
    /\ f_pc' = "idle"
    /\ f_pending' = [who |-> "nobody"]
    /\ UNCHANGED << backups, epoch, fix_log >>
    /\ UNCHANGED << sim_vars, mgr_vars, or_vars, stage_vars, saver_vars, engine_vars, platform_vars >>

\* a second passes
FixerTick ==
    /\ epoch < MaxEpoch
    /\ epoch' = epoch + 1
    /\ UNCHANGED << files, backups, f_pc, f_pending, f_ret, fix_log >>
    /\ UNCHANGED << sim_vars, mgr_vars, or_vars, stage_vars, saver_vars, engine_vars, platform_vars >>

\* hand-written templates, one family per group of rules, built from what a
\* template may hold under each key
Templates ==
    LET Scalar(text) == [y |-> "scalar", text |-> text]
        Mapping(m) == [y |-> "mapping", m |-> m]
        ThreatTypeOptions ==
            {EmptyDict} \cup
            {"threat_type" :> Scalar(v) : v \in {"phishing"} \cup DOMAIN THREAT_TYPE_MAPPINGS}
        DeliveryVectorOptions ==
            {EmptyDict} \cup
            {"delivery_vector" :> Scalar(v) :
                v \in {"email", "mixed", "multi_channel", "multi_vector"}}
        DifficultyOptions ==
            {"difficulty_level" :> Scalar(v) : v \in {"7", "'7'", "hard"}}
        DurationOptions ==
            {EmptyDict} \cup
            {"estimated_duration" :> Scalar(v) : v \in {"45", "about 30 minutes", "soon"}}
        SimulationOptions ==
            {EmptyDict,
             "simulation_parameters" :> Scalar(""),
             "simulation_parameters" :>
                 Mapping([max_iterations |-> Scalar("'4'"),
                          max_duration_minutes |-> Scalar("an hour"),
                          urgency_level |-> Scalar("5"),
                          escalation_enabled |-> Scalar("'Yes'"),
                          compliance_mode |-> Scalar("never"),
                          audit_logging |-> Scalar("true")])}
        UnsupportedOptions ==
            {EmptyDict,
             [success_metrics |-> Scalar("clicks"),
              escalation_triggers |-> Scalar("'on'"),
              dynamic_content |-> [y |-> "sequence"]]}
        FullMetadata ==
            [name |-> Scalar("Bec Lure"), description |-> Scalar("Invoice fraud"),
             version |-> Scalar("'2'"), author |-> Scalar("red team"),
             tags |-> [y |-> "sequence"], references |-> [y |-> "sequence"],
             created_at |-> Scalar("2024-05-01T10:00:00Z"),
             updated_at |-> Scalar("'2024-05-02T10:00:00Z'")]
        MetadataOptions ==
            {EmptyDict,
             "metadata" :> Scalar(""),
             "metadata" :> Mapping("name" :> Scalar("Bec Lure")),
             "metadata" :> Mapping(FullMetadata)}
        TargetOptions ==
            {EmptyDict,
             "target_profile" :> Scalar("~"),
             "target_profile" :>
                 Mapping([seniority |-> Scalar("principal"),
                          technical_level |-> Scalar("high"),
                          industry |-> Scalar("finance"),
                          company_size |-> Scalar("huge")])}
    IN  {a @@ b @@ ("difficulty_level" :> Scalar("7"))
             @@ ("metadata" :> Mapping(FullMetadata)) :
            a \in ThreatTypeOptions, b \in DeliveryVectorOptions}
        \cup
        {a @@ b @@ c @@ ("threat_type" :> Scalar("phishing"))
             @@ ("metadata" :> Mapping(FullMetadata)) :
            a \in DifficultyOptions, b \in DurationOptions, c \in SimulationOptions}
        \cup
        {a @@ b @@ c @@ ("threat_type" :> Scalar("supply_chain"))
             @@ ("difficulty_level" :> Scalar("7")) :
            a \in UnsupportedOptions, b \in MetadataOptions, c \in TargetOptions}

\* both files of the directory hold the same hand-written template
InitFixer ==
    /\ SimulatorAtRest
    /\ ManagerAtRest
    /\ \E doc \in Templates : ComponentsAtRest(doc)

NextFixer ==
    \/ \E template_file \in TemplateFiles : FixTemplate(template_file)
    \/ \E template_file \in TemplateFiles : FixTemplateIssues(template_file)
    \/ SaveFixed
    \/ FixerTick

SpecFixer == InitFixer /\ [][NextFixer]_vars

\* TemplateFixer.fix_all_templates(): one run over the templates directory,
\* which holds the template files and, beside them, the backup copies.  The
\* listing is taken before the loop, the *.yaml names in the order `listing`
\* gives them and then the *.yml names; fix_template is called on each name
\* and reads the file as it is by then.  f_ret holds the results of the run,
\* the number of the run and the number of files it created.
FixAllTemplates(listing) ==
    /\ f_pc = "idle"
    /\ (f_ret.kind = "results" => f_ret.run < MaxFixRuns)
    /\ LET FixedFile(fx) ==
               [header |-> << "# ThreatGPT Threat Scenario Template",
                              "# Auto-fixed on " \o IsoFormat(epoch) \o "Z",
                              "# Fixes applied: " \o Join(fx.fixes, ", "), "" >>,
                doc |-> YamlDump(fx.data)]
           RECURSIVE FixFrom(_, _)
           FixFrom(k, acc) ==
               IF k > Len(listing) THEN acc
               ELSE LET template_file == listing[k]
                        fx == FixTemplateData(SafeLoad(acc.dir[template_file]), template_file,
                                              IsoFormat(epoch) \o "Z")
                    IN  IF fx.raised
                        THEN FixFrom(k + 1, [acc EXCEPT !.failed = Append(@, template_file)])
                        ELSE IF fx.fixes = << >>
                        THEN FixFrom(k + 1, [acc EXCEPT !.skipped = Append(@, template_file)])
                        ELSE FixFrom(k + 1,
                                 [acc EXCEPT
                                     !.dir = Put(Copy2(acc.dir,
                                                       Stem(template_file) \o ".backup."
                                                           \o IntToStr(epoch) \o ".yaml",
                                                       acc.dir[template_file]),
                                                 template_file, FixedFile(fx)),
                                     !.fixed = Append(@, template_file),
                                     !.total_fixes = @ + Len(fx.fixes)])
           done == FixFrom(1, [dir |-> files @@ backups, fixed |-> << >>, failed |-> << >>,
                               skipped |-> << >>, total_fixes |-> 0])
       IN  /\ files' = [file \in TemplateFiles |-> done.dir[file]]
           /\ backups' = [path \in DOMAIN done.dir \ TemplateFiles |-> done.dir[path]]
           /\ f_ret' = [kind |-> "results",
                        run |-> IF f_ret.kind = "results" THEN f_ret.run + 1 ELSE 1,
                        fixed |-> done.fixed, failed |-> done.failed,
                        skipped |-> done.skipped, total_fixes |-> done.total_fixes,
                        created |-> Cardinality(DOMAIN done.dir \ (TemplateFiles \cup DOMAIN backups))]
    /\ UNCHANGED << epoch, f_pc, f_pending, fix_log >>
    /\ UNCHANGED << sim_vars, mgr_vars, or_vars, stage_vars, saver_vars, engine_vars, platform_vars >>

\* the runs of fix_all_templates over one directory, a glob returning the
\* names it matches in any order
NextFixAll ==
    LET Matching(suffix) ==
            {path \in TemplateFiles \cup DOMAIN backups :
                /\ Len(path) > Len(suffix)
                /\ SubSeq(path, Len(path) - Len(suffix) + 1, Len(path)) = suffix}
        Orders(S) ==
            {o \in [1..Cardinality(S) -> S] :
                \A a, b \in 1..Cardinality(S) : a # b => o[a] # o[b]}
    IN  \/ \E yaml \in Orders(Matching(".yaml")), yml \in Orders(Matching(".yml")) :
               FixAllTemplates(yaml \o yml)
        \/ FixerTick

SpecFixAll == InitFixer /\ [][NextFixAll]_vars

(***************************************************************************)
(* Properties                                                              *)
(***************************************************************************)
Terminal == {"completed", "failed", "cancelled"}

\* the seven stage types in pipeline order
PipelineOrder ==
    << "reconnaissance", "attack_planning", "execution", "persistence",
       "data_collection", "exfiltration", "cleanup" >>

StageTypesOf(res) == [k \in 1..Len(res.stages) |-> res.stages[k].stage_type]

\* the messages of ErrorMessages that contain "critical" in some letter case
CriticalMessages == {"CRITICAL: scenario store unreachable", "lookup failed (Critical)"}

CriticalFailure(st) == ~st.success /\ st.error_message \in CriticalMessages

\* a scenario whose attributes read normally from the call to its return
Readable(r) == scenario[r].name # "" /\ scenario[r].attr_error = ""

\* C1: for a ThreatScenario with a non-empty name (its attributes read
\* normally throughout the call) and max_stages >= 7, execute_simulation
\* returns a result with exactly the seven stage records, in pipeline order,
\* each with a duration_seconds >= 0.
C1_SevenStagesInOrder ==
    \A r \in RunIds :
        (pc[r] = "returned" /\ Readable(r) /\ max_stages >= 7) =>
            /\ StageTypesOf(result[r]) = PipelineOrder
            /\ \A k \in 1..Len(result[r].stages) :
                 /\ "duration_seconds" \in DOMAIN result[r].stages[k]
                 /\ result[r].stages[k].duration_seconds >= 0

\* a returned seven-stage run in which the clock advanced during a generation
C1_Witness ==
    /\ pc[1] = "returned" /\ Readable(1) /\ max_stages >= 7
    /\ Len(result[1].stages) = 7
    /\ \E k \in 1..7 : result[1].stages[k].duration_seconds > 0
    /\ result[1].stages[7].content = RealContent

\* C2 (as claimed): once the status of a result is COMPLETED, FAILED or
\* CANCELLED, no step changes it.
C2_TerminalStatusIsFinal ==
    [][\A r \in RunIds :
         result[r].status \in Terminal => result'[r].status = result[r].status]_vars

\* C3 (as claimed): a cancel_simulation call for a run in the active-runs map
\* returns true, removes the run and leaves the result's status CANCELLED.
C3_CancelLeavesCancelled ==
    [][\A id \in RunIds :
         (id \in active_simulations /\ CancelSimulation(id)) =>
             /\ cancel_ret' = "True"
             /\ id \notin active_simulations'
             /\ result'[id].status = "cancelled"]_vars

\* a call that was cancelled while a stage generation was in flight and has
\* not resumed since
CancelledInFlight(r) == pc[r] \in {"gen", "retry"} /\ r \notin active_simulations

\* C4 (as claimed): after a run is cancelled during a stage generation, no
\* stage record is appended to its result and the result is not marked as
\* successfully completed.
C4_CancelledResultIsDiscarded ==
    [][\A r \in RunIds :
         CancelledInFlight(r) =>
             /\ result'[r].stages = result[r].stages
             /\ result'[r].status # "completed"
             /\ result'[r].success # "True"]_vars

\* the records of res2 start with the records of res1
Extends(res2, res1) ==
    /\ Len(res2.stages) >= Len(res1.stages)
    /\ SubSeq(res2.stages, 1, Len(res1.stages)) = res1.stages

\* C5: while stage n of a call is generated the result holds exactly the
\* records of stages 1..n-1, in order; while the call sleeps after stage n it
\* holds those of 1..n; a step changes the stage list of a result only if it
\* is a step of that result's own call, and then only by appending.
C5_StagesSequential ==
    /\ [](\A r \in RunIds :
            /\ pc[r] \in {"gen", "retry"} => Len(result[r].stages) = i[r] - 1
            /\ pc[r] = "sleep" => Len(result[r].stages) = i[r]
            /\ \A k \in 1..Len(result[r].stages) :
                 /\ result[r].stages[k].stage_number = k
                 /\ result[r].stages[k].stage_type = PipelineOrder[k])
    /\ [][\A r \in RunIds :
            result'[r].stages # result[r].stages =>
                /\ << pc'[r], i'[r] >> # << pc[r], i[r] >>
                /\ \A q \in RunIds \ {r} : << pc'[q], i'[q], result'[q] >> = << pc[q], i[q], result[q] >>
                /\ Extends(result'[r], result[r])]_vars

\* two overlapping calls, the first generating its second stage
C5_Witness ==
    /\ pc[1] = "gen" /\ i[1] = 2 /\ Len(result[1].stages) = 1
    /\ pc[2] = "sleep" /\ i[2] = 1 /\ Len(result[2].stages) = 1

\* C6: a failed stage whose message contains "critical" (any letter case) is
\* the last record of its result and the call has returned with a terminal
\* status; a returned result without such a stage holds a record for every
\* stage of the pipeline that max_stages admits, failed or not.
C6_CriticalStopsPipeline ==
    \A r \in RunIds :
        /\ \A k \in 1..Len(result[r].stages) :
             CriticalFailure(result[r].stages[k]) =>
                 /\ k = Len(result[r].stages)
                 /\ pc[r] = "returned"
                 /\ result[r].status \in Terminal
        /\ (/\ pc[r] = "returned"
            /\ \A k \in 1..Len(result[r].stages) : ~CriticalFailure(result[r].stages[k]))
           => Len(result[r].stages) = (IF max_stages < 7 THEN max_stages ELSE 7)

\* a run cut short at its third stage by a "Critical" failure, after two
\* successful stages
C6_Witness ==
    /\ pc[1] = "returned" /\ max_stages >= 7
    /\ Len(result[1].stages) = 3
    /\ result[1].stages[1].success /\ result[1].stages[2].success
    /\ ~result[1].stages[3].success
    /\ result[1].stages[3].error_message = "lookup failed (Critical)"

\* a run that went on after a failure whose message has no "critical"
C6_WitnessNonCritical ==
    /\ pc[1] = "returned" /\ max_stages >= 7
    /\ Len(result[1].stages) = 7
    /\ \E k \in 1..6 : ~result[1].stages[k].success

\* the stage loop of call r was cut short by a "critical" stage error
CutShort(r) ==
    /\ pc[r] = "returned"
    /\ Len(result[r].stages) > 0
    /\ CriticalFailure(result[r].stages[Len(result[r].stages)])

\* C7 (as claimed): a call whose stage loop was cut short by a "critical"
\* error returns a result completed as failed.
C7_CutShortCompletesAsFailed ==
    \A r \in RunIds :
        CutShort(r) => /\ result[r].success = "False"
                       /\ result[r].status = "failed"

\* C7 (amended): a call whose stage loop was cut short by a "critical" error
\* does not raise; it returns a result that mark_completed(success=True) has
\* completed: status COMPLETED, success true, no error message.
C7_CutShortCompletesAsSuccess ==
    \A r \in RunIds :
        /\ CutShort(r) => /\ result[r].success = "True"
                          /\ result[r].status = "completed"
                          /\ result[r].error_message = "None"
        /\ (\E k \in 1..Len(result[r].stages) : CriticalFailure(result[r].stages[k]))
             => pc[r] = "returned"

\* a run cut short at its first stage by a "CRITICAL" failure
C7_Witness ==
    /\ CutShort(1)
    /\ Len(result[1].stages) = 1
    /\ result[1].stages[1].error_message = "CRITICAL: scenario store unreachable"
    /\ result[1].status = "completed"

C10_DegradedContentIsNotRealAI ==
    (m_pc = "returned" /\ m_out.kind = "resp") =>
        /\ Len(Strip(m_out.resp.content)) < 10 =>
             /\ m_ret.content = "[Insufficient content generated for "
                                \o m_args.scenario_type \o " scenario]"
             /\ m_ret.is_real_ai = FALSE
        /\ (\/ StartsWith(m_out.resp.content, "[FALLBACK")
            \/ StartsWith(m_out.resp.content, "[Content generation unavailable"))
             => m_ret.is_real_ai = FALSE

\* the attempt ended in a way generate_content retries: a timeout, a client
\* error or a status other than 200
FailedAttempt(out) ==
    \/ out.kind \in {"timeout", "client_error"}
    \/ out.kind = "response" /\ out.status # 200

\* C11: generate_content makes at most 3 HTTP attempts; 3 failed attempts in a
\* row (timeouts, client errors, non-200 statuses in any mix) end the call
\* after exactly 3 attempts with None and without an exception, having waited
\* 1 s and then 2 s and not after the last attempt; a 200 response ends the
\* call on the attempt that received it.
C11_ThreeAttemptsThenNone ==
    /\ Len(or_http) <= 3
    /\ or_pc \in {"idle", "post", "sleep", "returned"}
    /\ or_pc = "returned" => or_ret.kind \in {"none", "resp"}
    /\ Len(or_sleeps) <= 2
    /\ \A k \in 1..Len(or_sleeps) : or_sleeps[k] = k
    /\ (Len(or_http) >= 3 /\ \A k \in 1..3 : FailedAttempt(or_http[k]))
         => /\ or_pc = "returned"
            /\ Len(or_http) = 3
            /\ or_ret = OutNone
            /\ or_sleeps = << 1, 2 >>
    /\ \A k \in 1..Len(or_http) :
         (or_http[k].kind = "response" /\ or_http[k].status = 200)
            => k = Len(or_http) /\ or_pc = "returned"

\* C11 witness: a timeout, a client error and a 500 in a row ended the call
C11_Witness ==
    /\ or_pc = "returned"
    /\ Len(or_http) = 3
    /\ or_http[1].kind = "timeout"
    /\ or_http[2].kind = "client_error"
    /\ or_http[3].kind = "response" /\ or_http[3].status = 500
    /\ or_ret = OutNone

\* the first generate_content call of the stage returned a response whose
\* finish_reason is "length"
FirstTruncated ==
    /\ Len(g_resp) >= 1
    /\ g_resp[1].kind = "resp"
    /\ g_resp[1].resp.finish_reason = "length"

\* the retry asked for 1.5 times the max_tokens of the first call
RetryAsksHalfMore == g_calls[2].max_tokens * 2 = g_calls[1].max_tokens * 3

GenerationFails ==
    /\ ManagerIsAvailable(llm_provider)
    /\ provider_script.first \in {OutRaise, OutNone}

\* C13: with a provider configured whose generation fails, the content
\* recorded for a stage is the canned narrative of its stage type (the
\* dedicated one for reconnaissance, attack_planning and execution, the generic
\* paragraph naming stage and threat type for the others).
C13_FailedGenerationRecordsCannedNarrative ==
    \A r \in RunIds :
        GenerationFails =>
            \A k \in 1..Len(result[r].stages) :
                result[r].stages[k].success =>
                    result[r].stages[k].content =
                        FallbackTemplate(scenario[r], stages_config[k].type,
                                         stages_config[k].description)

\* the texts the engine produces in place of model output: the manager's
\* fallback string, its placeholder for a short answer and the canned stage
\* narratives
FallbackTexts ==
    {c \in SaverContents :
        \/ StartsWith(c, "[FALLBACK CONTENT]")
        \/ StartsWith(c, "[Insufficient content generated")
        \/ \E k \in 1..Len(stages_config) :
              c = FallbackTemplate(SavedScenario, stages_config[k].type,
                                   stages_config[k].description)}

\* C14: save_simulation_content writes no fallback or placeholder text to the
\* library: the manager's "[FALLBACK CONTENT] ..." string, the
\* "[Insufficient content generated ...]" placeholder and the canned stage
\* narratives are all rejected.
C14_NoFallbackTextInLibrary ==
    \A f \in library : f.content \notin FallbackTexts

\* the content speaks of a phone and of a script, call or conversation, in
\* any case of the letters
PhonePhrasing(content) ==
    LET content_lower == ToLower(content)
    IN  /\ Contains(content_lower, "phone")
        /\ \/ Contains(content_lower, "script")
           \/ Contains(content_lower, "call")
           \/ Contains(content_lower, "conversation")

\* the content carries the two mail headers
HasMailHeaders(content) == Contains(content, "Subject:") /\ Contains(content, "From:")

\* C20 as stated: with threat type "phishing" every content containing
\* "Subject:" and "From:" is categorized ("email_templates", "Email
\* Templates"), whatever else it contains; with threat type
\* "social_engineering" every content containing "phone" is categorized
\* ("phone_scripts", "Phone Scripts").
C20_HeadersMeanEmailTemplates ==
    /\ (cat_in.threat_type = "phishing" /\ HasMailHeaders(cat_in.content))
          => cat_ret = << "email_templates", "Email Templates" >>
    /\ (cat_in.threat_type = "social_engineering" /\ Contains(cat_in.content, "phone"))
          => cat_ret = << "phone_scripts", "Phone Scripts" >>

\* C20 amended: the phone branch is tested first, so a phishing content with
\* both headers is an email template unless it speaks of a phone together
\* with a script, call or conversation, and then it is a phone script.
C20_HeadersMeanEmailUnlessPhonePhrasing ==
    /\ (cat_in.threat_type = "phishing" /\ HasMailHeaders(cat_in.content))
          => cat_ret = IF PhonePhrasing(cat_in.content)
                       THEN << "phone_scripts", "Phone Scripts" >>
                       ELSE << "email_templates", "Email Templates" >>
    /\ (cat_in.threat_type = "social_engineering" /\ Contains(cat_in.content, "phone"))
          => cat_ret = << "phone_scripts", "Phone Scripts" >>

\* C20 witness: a phishing mail with both headers that mentions a mobile and
\* a phone but no call was filed under the email templates
C20_Witness ==
    /\ cat_in.threat_type = "phishing"
    /\ HasMailHeaders(cat_in.content)
    /\ Contains(cat_in.content, "mobile")
    /\ Contains(cat_in.content, "phone")
    /\ ~PhonePhrasing(cat_in.content)
    /\ cat_ret = << "email_templates", "Email Templates" >>

\* C15: deploy_threat_campaign raises the invalid-configuration error
\* whenever the config is neither compliance-approved nor in test mode, before
\* any channel service's deploy is invoked and before a campaign is allocated
\* in the metrics collector; with either flag true the check passes.
C15_UnapprovedConfigRaisesFirst ==
    [][IF ~d_config'.compliance_approved /\ ~d_config'.test_mode
       THEN /\ d_pc' = "raised"
            /\ StartsWith(d_ret'.error, "ValueError")
            /\ d_calls' = << >>
            /\ active_campaigns' = active_campaigns
       ELSE /\ d_pc' = "returned"
            /\ d_ret'.kind = "ok"
            /\ Len(active_campaigns') = Len(active_campaigns) + 1]_vars

\* C15 witness: an engine that ran a campaign has turned down a config with
\* both flags false whose email channel has a target
C15_Witness ==
    /\ d_pc = "raised"
    /\ ~d_config.compliance_approved /\ ~d_config.test_mode
    /\ Len(GetTargetsForChannel(d_config, "email")) > 0
    /\ d_config.channels = << "email" >>
    /\ Len(active_campaigns) = 1
    /\ d_calls = << >>

\* a target of the platform deployment failed: its request raised or came
\* back with a status the platform does not take for a delivery
TargetFailed(platform, out) ==
    \/ out.kind = "error"
    \/ platform = "microsoft365" /\ out.status # 202
    \/ platform = "slack" /\ (out.status # 200 \/ ~out.readable \/ ~out.ok)

\* the targets of the finished call that failed
FailedTargets == {t \in 1..Len(p_log) : TargetFailed(p_platform, p_log[t])}

\* C16: when some targets of a platform deployment fail, deploy_content of
\* Microsoft365Integration and SlackIntegration does not raise: it returns a
\* DeploymentResult that counts the failed targets in targets_failed, the
\* others in targets_successful, and whose status is a DeploymentStatus.
C16_PartialFailureReturnsResult ==
    (p_pc \in {"returned", "raised"} /\ FailedTargets # {})
        => /\ p_pc = "returned"
           /\ p_ret.kind = "result"
           /\ p_ret.targets_failed = Cardinality(FailedTargets)
           /\ p_ret.targets_successful = p_targets - Cardinality(FailedTargets)
           /\ p_ret.status \in DeploymentStatus

\* fix_template runs to its return on the file: every section it walks
\* through is a mapping
RunsThrough(content) ==
    \A section \in {"simulation_parameters", "metadata", "target_profile"} :
        section \in DOMAIN SafeLoad(content) => SafeLoad(content)[section].t = "dict"

\* the step is the second application of fix_template to the file, right
\* after the first
SecondFix(file) ==
    fix_log[file] = << "fixer" >> /\ fix_log'[file] = << "fixer", "fixer" >>

\* the step returns an empty fix list, writes no backup and leaves the files
FindsNothing ==
    /\ f_pc' = "idle"
    /\ f_ret'.kind = "fixes"
    /\ f_ret'.fixes = << >>
    /\ backups' = backups
    /\ files' = files

SameUnder(a, b, key) ==
    /\ key \in DOMAIN a <=> key \in DOMAIN b
    /\ key \in DOMAIN a => a[key] = b[key]

\* C18: TemplateManager.fix_template_issues normalizes a template the same
\* way as TemplateFixer.fix_template: for every legacy threat_type and every
\* legacy delivery_vector both produce the same replacement value, and both
\* remove the same unsupported fields.
C18_ManagerNormalizesLikeFixer ==
    (/\ f_pc = "idle"
     /\ fix_log["bec_lure.yaml"] = << "fixer" >>
     /\ fix_log["bec_lure.yml"] = << "manager" >>)
        => LET by_fixer == SafeLoad(files["bec_lure.yaml"])
               by_manager == SafeLoad(files["bec_lure.yml"])
           IN  /\ SameUnder(by_fixer, by_manager, "threat_type")
               /\ SameUnder(by_fixer, by_manager, "delivery_vector")
               /\ \A k \in 1..Len(unsupported_fields) :
                      unsupported_fields[k] \in DOMAIN by_fixer
                          <=> unsupported_fields[k] \in DOMAIN by_manager

\* the path is that of a backup copy of the file
IsBackupOf(path, file) == StartsWith(path, Stem(file) \o ".backup")

\* C19: whenever a fixer changes a template file, a backup copy holding the
\* file's content from before the change exists before the file is
\* overwritten; when a fixer finds nothing to fix it neither writes a backup
\* nor touches the file.
C19_BackupBeforeOverwrite ==
    [][\A file \in TemplateFiles :
           /\ files'[file] # files[file]
                  => \E path \in DOMAIN backups :
                         IsBackupOf(path, file) /\ backups[path] = files[file]
           /\ (fix_log'[file] # fix_log[file] /\ f_pc' = "idle")
                  => (files' = files /\ backups' = backups)]_vars

\* C19 witness: both fixers have rewritten a file, each after a backup copy of
\* what it found, the fixer's holding the hand-written template
C19_Witness ==
    \E file \in TemplateFiles :
        /\ fix_log[file] = << "manager", "fixer" >>
        /\ f_pc = "idle"
        /\ f_ret.kind = "fixes" /\ f_ret.fixes # << >>
        /\ \E path \in DOMAIN backups :
               IsBackupOf(path, file) /\ backups[path].header = << >>
        /\ \E path \in DOMAIN backups :
               /\ IsBackupOf(path, file)
               /\ Len(backups[path].header) = 3
               /\ backups[path] # files[file]

\* C21: when no LLM provider is configured, the content generated for each of
\* the seven stage types is non-empty and contains both the scenario name and
\* the literal stage-type label of that stage (reconnaissance,
\* attack_planning, execution, persistence, data_collection, exfiltration,
\* cleanup).
C21_FallbackNamesScenarioAndStage ==
    \A r \in RunIds :
        ~ManagerIsAvailable(llm_provider) =>
            \A k \in 1..Len(result[r].stages) :
                result[r].stages[k].success =>
                    /\ result[r].stages[k].content # ""
                    /\ Contains(result[r].stages[k].content, scenario[r].name)
                    /\ Contains(result[r].stages[k].content, PipelineOrder[k])

\* C22: LLMManager selects the provider for a call in this order: the provider
\* registered under the explicit provider_name when that name is registered,
\* otherwise the manager's default provider, otherwise the first registered
\* provider, otherwise none, which makes generate_content fail; an explicit
\* provider_name that is not registered is not an error but falls through to
\* the later choices.
C22_ProviderSelectionOrder ==
    m_pc # "idle" =>
        LET registered == {m_self.providers[k] : k \in 1..Len(m_self.providers)}
            named == m_args.provider_name \in registered
        IN  /\ named => m_args.provider = m_args.provider_name
            /\ (~named /\ m_self.provider # NoProvider) =>
                    m_args.provider = m_self.provider
            /\ (~named /\ m_self.provider = NoProvider /\ registered # {}) =>
                    m_args.provider = m_self.providers[1]
            /\ (~named /\ m_self.provider = NoProvider /\ registered = {}) =>
                    m_args.provider = NoProvider
            /\ (m_pc = "raised") = (m_args.provider = NoProvider)

\* a call naming the unregistered "ollama" goes on to a provider call with
\* the default provider, although another provider is registered too
C22_Witness ==
    /\ m_pc = "awaiting"
    /\ m_args.provider_name = "ollama"
    /\ m_self.provider = "custom"
    /\ Len(m_self.providers) > 0
    /\ m_args.provider = "custom"

\* C23: cancel_simulation(result_id) returns true exactly when result_id is in
\* the active-runs map at the time of the call; when it returns false, the
\* active-runs map and every SimulationResult are left unchanged.
C23_CancelReturnsMembership ==
    [][\A id \in RunIds \cup {UnknownId} :
         CancelSimulation(id) =>
             /\ (cancel_ret' = "True") = (id \in active_simulations)
             /\ (cancel_ret' = "False") = (id \notin active_simulations)
             /\ cancel_ret' = "False" =>
                    /\ active_simulations' = active_simulations
                    /\ result' = result]_vars

\* a cancel_simulation call has returned false while one run is active and
\* another has already completed
C23_Witness ==
    /\ cancel_ret = "False"
    /\ active_simulations # {}
    /\ \E r \in RunIds : result[r].status = "completed" /\ pc[r] = "returned"

\* C24: execute_simulation called with a scenario whose name is empty raises
\* an invalid-input error before any SimulationResult is created: the
\* active-runs map is the same after the call as before it and no LLM call is
\* made.
C24_EmptyNameRaisesFirst ==
    /\ [][\A r \in RunIds : \A scen \in Scenarios :
            (scen.name = "" /\ ExecuteSimulation(r, scen)) =>
                /\ pc'[r] = "raised"
                /\ result' = result
                /\ active_simulations' = active_simulations]_vars
    /\ [](\A r \in RunIds :
            pc[r] = "raised" =>
                /\ result[r] = NoResult
                /\ r \notin active_simulations
                /\ first_content[r] = "")
    /\ [][\A r \in RunIds : pc[r] = "raised" => pc'[r] = "raised"]_vars

\* a call with a nameless scenario has raised while a later call is running
C24_Witness ==
    /\ pc[1] = "raised"
    /\ scenario[1].name = ""
    /\ result[1] = NoResult
    /\ active_simulations = {2}
    /\ pc[2] = "gen"

\* C25: at every point of every interleaving of execute_simulation and
\* cancel_simulation calls on one simulator, each result held in the
\* active-runs map has status RUNNING and belongs to an execute_simulation
\* call that has started and not yet returned; distinct running simulations
\* occupy distinct keys.
C25_ActiveRunsAreRunning ==
    /\ \A r \in active_simulations :
          /\ result[r].status = "running"
          /\ pc[r] \in {"gen", "retry", "sleep"}
    /\ \A r \in RunIds :
          (result[r].status = "running" /\ pc[r] \in {"gen", "retry", "sleep"}) =>
              r \in active_simulations
    /\ Cardinality(active_simulations) =
          Cardinality({r \in RunIds : result[r].status = "running"})

\* two calls are in flight and tracked at once, one awaiting the LLM and one
\* asleep between stages, after a cancel_simulation call has returned false
C25_Witness ==
    /\ active_simulations = {1, 2}
    /\ pc[1] = "sleep"
    /\ pc[2] = "gen"
    /\ Len(result[1].stages) > 0
    /\ cancel_ret = "False"

\* the LLM layer fails for every stage: no provider is available, or the
\* provider raises, returns None or returns an empty content
LLMLayerFails ==
    \/ ~ManagerIsAvailable(llm_provider)
    \/ provider_script.first \in {OutRaise, OutNone, OutEmpty}

\* content is text put in place of model output for stage k of scenario scen:
\* the canned stage narrative, the manager's fallback string or its
\* placeholder for a short answer
SubstitutedText(content, scen, k) ==
    \/ content = FallbackTemplate(scen, stages_config[k].type, stages_config[k].description)
    \/ StartsWith(content, "[FALLBACK CONTENT]")
    \/ StartsWith(content, "[Insufficient content generated")

\* C26: a failure inside the LLM layer while a stage is generated (no provider
\* available, the manager raising, or an empty response) never produces a
\* failed stage record: _generate_stage_content substitutes text and the stage
\* is appended with success = True, so a result can be COMPLETED with every
\* stage marked successful although no stage content came from a model.
C26_LLMFailureYieldsSuccessfulStages ==
    \A r \in RunIds :
        (LLMLayerFails /\ scenario[r].attr_error = "") =>
            \A k \in 1..Len(result[r].stages) :
                /\ result[r].stages[k].success
                /\ SubstitutedText(result[r].stages[k].content, scenario[r], k)

\* a run on a simulator without a provider has returned COMPLETED with all its
\* stages successful and none of their contents from a model
C26_Witness ==
    /\ ~ManagerIsAvailable(llm_provider)
    /\ pc[1] = "returned"
    /\ result[1].status = "completed"
    /\ result[1].success = "True"
    /\ Len(result[1].stages) = max_stages
    /\ \A k \in 1..Len(result[1].stages) :
          /\ result[1].stages[k].success
          /\ SubstitutedText(result[1].stages[k].content, scenario[1], k)

\* C27 (as claimed): for a scenario without a content_type in its metadata,
\* the SMS-phishing threat types (sms_phishing, smishing) are generated with
\* max_tokens = 500, vishing with 2000, the other phishing types with 2000 and
\* a threat type matching no rule with 1000.
C27_MaxTokensByThreatType ==
    (g_pc # "idle" /\ g_in.scenario.content_type = "" /\ Len(g_calls) >= 1) =>
        LET threat == g_in.scenario.threat_type
            max_tokens == g_calls[1].max_tokens
        IN  /\ threat \in {"sms_phishing", "smishing"} => max_tokens = 500
            /\ threat = "vishing" => max_tokens = 2000
            /\ threat \in {"phishing", "spear_phishing"} => max_tokens = 2000
            /\ threat = "advanced_persistent_threat" => max_tokens = 1000

\* every counter of the campaign record is zero and its event log is empty
Untouched(metrics) ==
    /\ metrics.emails_sent = 0 /\ metrics.emails_delivered = 0
    /\ metrics.emails_opened = 0 /\ metrics.links_clicked = 0
    /\ metrics.credentials_submitted = 0 /\ metrics.sms_sent = 0
    /\ metrics.security_escalations = 0 /\ metrics.events = 0

\* C28: the CampaignMetrics record that deploy_threat_campaign allocates has
\* every counter at zero when the call returns, for any number of targets: the
\* email_sent and sms_sent events that the channel services emit during that
\* call carry no campaign_id and are emitted before the campaign exists, so
\* record_event drops them without changing any counter or event log.
C28_NewCampaignCountsNothing ==
    /\ [](d_pc = "returned" =>
            /\ d_ret.campaign_id \in DOMAIN active_campaigns
            /\ Untouched(active_campaigns[d_ret.campaign_id]))
    /\ [][\A c \in DOMAIN active_campaigns :
            /\ c \in DOMAIN active_campaigns'
            /\ active_campaigns'[c] = active_campaigns[c]]_vars

\* a second campaign has returned after serving targets by e-mail and by SMS,
\* and both campaign records are still at zero
C28_Witness ==
    /\ d_pc = "returned"
    /\ d_ret.campaign_id = 2
    /\ Len(d_ret.results) = 2
    /\ \A k \in 1..2 : d_ret.results[k].kind = "result"
                       /\ d_ret.results[k].targets_successful > 0
    /\ Untouched(active_campaigns[1])
    /\ Untouched(active_campaigns[2])

\* C29 (as claimed): every DeploymentResult returned by
\* EmailDeploymentService.deploy or SMSDeploymentService.deploy satisfies
\* targets_attempted = targets_successful + targets_failed and has exactly
\* targets_successful tracking ids, for every target list and every
\* metrics_callback, including a callback that raises.
C29_DeploymentCountsAddUp ==
    d_pc = "deployed" =>
        /\ d_ret.result.targets_attempted =
               d_ret.result.targets_successful + d_ret.result.targets_failed
        /\ Len(d_ret.result.tracking_ids) = d_ret.result.targets_successful

\* C30 (as claimed): after fix_all_templates has run once over a templates
\* directory, a second run over the same directory applies no fix and creates
\* no new file, because the backup copies written by the first run are not
\* picked up as templates; repeated runs therefore reach a state in which a
\* run changes nothing.
C30_SecondRunChangesNothing ==
    [][(f_ret.kind = "results" /\ f_ret'.kind = "results" /\ f_ret'.run = f_ret.run + 1) =>
           /\ f_ret'.fixed = << >>
           /\ f_ret'.total_fixes = 0
           /\ f_ret'.created = 0
           /\ files' = files
           /\ backups' = backups]_vars

====
